---- MODULE Spec2Model ----
(***************************************************************************)
(* State-machine model of the CPB sensor node firmware (src/CPB/code.py):  *)
(* the connection state machine of the main loop, the UART line buffer,    *)
(* the command parser handle_command and the NeoPixel colour buffer; and   *)
(* of three parts of the bridge (src/Raspberry_Pi/main.py): LineAssembler, *)
(* PutWorker and LedWorker, each with its own variables and its own        *)
(* specification.                                                          *)
(*                                                                         *)
(* Text is modelled as sequences of one-character strings, so that         *)
(* strip(), split(), upper(), int() and float() are computed as the code   *)
(* computes them.  Brightness is kept in percent (pixels.brightness*100),  *)
(* telemetry periods and elapsed time in tenths of a second.               *)
(***************************************************************************)
EXTENDS Integers, Sequences, FiniteSets, TLC

(***************************************************************************)
(* Program constants                                                       *)
(***************************************************************************)
NUM_PIXELS == 10

STATE_WAIT == 0
STATE_HANDLE == 1
STATE_RESET == 2
STATE_ERROR == 3

\* (40, 40, 40): the neutral default colour of reset_all and of the initial buffer
DEFAULT_RGB == <<40, 40, 40>>

\* pixels.brightness = 0.06, in percent
DEFAULT_BRIGHT == 6

\* telemetry_period = 1.0 s, in tenths of a second
DEFAULT_PERIOD == 10

(***************************************************************************)
(* Bounds of the model                                                     *)
(***************************************************************************)
\* longest unterminated fragment the UART delivers into rx_buf
MaxBuf == 4

\* the elapsed time since telemetry_t is tracked up to this many tenths of a second
MaxSince == 20

\* the N of a limit of N commands per second that the observer burst counts up to
MaxRate == 2

\* longest byte stream the node sends to one LineAssembler
MaxStream == 4

\* the number of records submit() is called with
MaxRecords == 5

\* the number of PUT /led requests the store serves
MaxStamp == 2

(***************************************************************************)
(* Python string primitives on sequences of characters                     *)
(***************************************************************************)
NL == "\n"

Digits == {"0", "1", "2", "3", "4", "5", "6", "7", "8", "9"}

HexDigits == Digits \cup {"a", "b", "c", "d", "e", "f", "A", "B", "C", "D", "E", "F"}

DigitVal(c) ==
    CASE c = "0" -> 0 [] c = "1" -> 1 [] c = "2" -> 2 [] c = "3" -> 3
      [] c = "4" -> 4 [] c = "5" -> 5 [] c = "6" -> 6 [] c = "7" -> 7
      [] c = "8" -> 8 [] c = "9" -> 9

HexVal(c) ==
    CASE c \in Digits -> DigitVal(c)
      [] c \in {"a", "A"} -> 10 [] c \in {"b", "B"} -> 11
      [] c \in {"c", "C"} -> 12 [] c \in {"d", "D"} -> 13
      [] c \in {"e", "E"} -> 14 [] c \in {"f", "F"} -> 15

IsSpace(c) == c \in {" ", "\t", "\r", NL}

RECURSIVE lstrip(_)
lstrip(s) == IF s # <<>> /\ IsSpace(Head(s)) THEN lstrip(Tail(s)) ELSE s

RECURSIVE rstrip(_)
rstrip(s) ==
    IF s # <<>> /\ IsSpace(s[Len(s)]) THEN rstrip(SubSeq(s, 1, Len(s) - 1)) ELSE s

\* str.strip()
strip(s) == rstrip(lstrip(s))

\* str.lstrip("#")
RECURSIVE lstrip_hash(_)
lstrip_hash(s) == IF s # <<>> /\ Head(s) = "#" THEN lstrip_hash(Tail(s)) ELSE s

\* index of the first character of s satisfying IsSpace, Len(s)+1 when there is none
FirstSpace(s) ==
    IF \E i \in 1..Len(s) : IsSpace(s[i])
    THEN CHOOSE i \in 1..Len(s) : IsSpace(s[i]) /\ \A j \in 1..(i - 1) : ~IsSpace(s[j])
    ELSE Len(s) + 1

\* str.split(): the whitespace-separated tokens of s
RECURSIVE split(_)
split(s) ==
    LET t == lstrip(s)
    IN  IF t = <<>> THEN <<>>
        ELSE LET n == FirstSpace(t)
             IN  <<SubSeq(t, 1, n - 1)>> \o split(SubSeq(t, n, Len(t)))

UpperChar(c) ==
    CASE c = "a" -> "A" [] c = "b" -> "B" [] c = "c" -> "C" [] c = "d" -> "D"
      [] c = "e" -> "E" [] c = "f" -> "F" [] c = "g" -> "G" [] c = "h" -> "H"
      [] c = "i" -> "I" [] c = "j" -> "J" [] c = "k" -> "K" [] c = "l" -> "L"
      [] c = "m" -> "M" [] c = "n" -> "N" [] c = "o" -> "O" [] c = "p" -> "P"
      [] c = "q" -> "Q" [] c = "r" -> "R" [] c = "s" -> "S" [] c = "t" -> "T"
      [] c = "u" -> "U" [] c = "v" -> "V" [] c = "w" -> "W" [] c = "x" -> "X"
      [] c = "y" -> "Y" [] c = "z" -> "Z" [] OTHER -> c

\* str.upper()
upper(s) == [i \in 1..Len(s) |-> UpperChar(s[i])]

RECURSIVE DecVal(_)
DecVal(s) == IF s = <<>> THEN 0 ELSE 10 * DecVal(SubSeq(s, 1, Len(s) - 1)) + DigitVal(s[Len(s)])

RECURSIVE HexSeqVal(_)
HexSeqVal(s) == IF s = <<>> THEN 0 ELSE 16 * HexSeqVal(SubSeq(s, 1, Len(s) - 1)) + HexVal(s[Len(s)])

HasSign(s) == s # <<>> /\ Head(s) \in {"+", "-"}

Unsigned(s) == IF HasSign(s) THEN Tail(s) ELSE s

Signed(s, v) == IF s # <<>> /\ Head(s) = "-" THEN 0 - v ELSE v

\* int(s): ok is FALSE where Python raises ValueError
py_int(s) ==
    LET b == Unsigned(s)
    IN  IF b # <<>> /\ \A i \in 1..Len(b) : b[i] \in Digits
        THEN [ok |-> TRUE, val |-> Signed(s, DecVal(b))]
        ELSE [ok |-> FALSE, val |-> 0]

\* int(s, 16)
py_int16(s) ==
    LET b == Unsigned(s)
    IN  IF b # <<>> /\ \A i \in 1..Len(b) : b[i] \in HexDigits
        THEN [ok |-> TRUE, val |-> Signed(s, HexSeqVal(b))]
        ELSE [ok |-> FALSE, val |-> 0]

\* position of the decimal point in s, 0 when there is none
DotAt(s) ==
    IF \E i \in 1..Len(s) : s[i] = "."
    THEN CHOOSE i \in 1..Len(s) : s[i] = "." /\ \A j \in 1..(i - 1) : s[j] # "."
    ELSE 0

\* float(s) in tenths, for decimal literals with at most one fractional digit
py_float(s) ==
    LET b == Unsigned(s)
        d == DotAt(b)
        ip == IF d = 0 THEN b ELSE SubSeq(b, 1, d - 1)
        fp == IF d = 0 THEN <<>> ELSE SubSeq(b, d + 1, Len(b))
    IN  IF /\ Len(ip) + Len(fp) > 0
           /\ \A i \in 1..Len(ip) : ip[i] \in Digits
           /\ \A i \in 1..Len(fp) : fp[i] \in Digits
        THEN [ok |-> TRUE,
              val |-> Signed(s, 10 * DecVal(ip) + (IF fp = <<>> THEN 0 ELSE DigitVal(fp[1])))]
        ELSE [ok |-> FALSE, val |-> 0]

Max2(a, b) == IF a > b THEN a ELSE b

Min2(a, b) == IF a < b THEN a ELSE b

(***************************************************************************)
(* Responses written to the UART: ok(), err(), send_status(),              *)
(* send_sens_line().  A response is the line's kind, its verb or reason,   *)
(* an echoed text argument and the formatted numbers.                      *)
(***************************************************************************)
Line(kind, verb, sarg, args) == [kind |-> kind, verb |-> verb, sarg |-> sarg, args |-> args]

\* ok(msg): "OK " + msg
ok(verb, sarg, args) == Line("OK", verb, sarg, args)

\* err(msg): "ERR " + msg
err(reason) == Line("ERR", reason, <<>>, <<>>)

\* send_status(): "STAT bright=<int(brightness*100)> colors=<i:r,g,b;...>"
send_status(F, B) == Line("STAT", "", <<>>, <<B>> \o F[1] \o F[NUM_PIXELS])

\* send_sens_line(): "SENS,ms=..,temp_C=..,light_raw=..,light_norm=.."
send_sens_line == Line("SENS", "", <<>>, <<>>)

(***************************************************************************)
(* The colour buffer 'farben' and its helpers                              *)
(***************************************************************************)
clamp8_NoUpper(x) == Max2(0, x)

\* clamp8(x): max(0, min(255, int(x)))
clamp8(x) == Max2(0, Min2(255, x))

\* set_all(r, g, b): every cell of farben becomes the clamped colour
set_all(r, g, b) == [i \in 1..NUM_PIXELS |-> <<clamp8(r), clamp8(g), clamp8(b)>>]

reset_all_SkipsLast(F) ==
    [i \in 1..NUM_PIXELS |-> IF i < NUM_PIXELS THEN DEFAULT_RGB ELSE F[i]]

\* reset_all(): every cell of farben becomes (40, 40, 40)
reset_all(F) == [i \in 1..NUM_PIXELS |-> DEFAULT_RGB]

clamp_pct_NoUpper(x) == Max2(0, x)

\* max(0, min(100, int(parts[1]))) of the BRIGHT branch
clamp_pct(x) == Max2(0, Min2(100, x))

(***************************************************************************)
(* handle_command                                                          *)
(***************************************************************************)
V_FILL == <<"F", "I", "L", "L">>
V_FILLHEX == <<"F", "I", "L", "L", "H", "E", "X">>
V_BRIGHT == <<"B", "R", "I", "G", "H", "T">>
V_OFF == <<"O", "F", "F">>
V_RESET == <<"R", "E", "S", "E", "T">>
V_GET == <<"G", "E", "T">>
V_GETQ == <<"G", "E", "T", "?">>
V_TEMPQ == <<"T", "E", "M", "P", "?">>
V_GETTEMPQ == <<"G", "E", "T", "T", "E", "M", "P", "?">>
V_LIGHTQ == <<"L", "I", "G", "H", "T", "?">>
V_GETLIGHTQ == <<"G", "E", "T", "L", "I", "G", "H", "T", "?">>
V_SENSQ == <<"S", "E", "N", "S", "?">>
V_GETSENSQ == <<"G", "E", "T", "S", "E", "N", "S", "?">>
V_TELEM == <<"T", "E", "L", "E", "M">>

\* What one call of handle_command leaves behind: the globals it may assign,
\* the lines it wrote, and whether its except clause ran.
Outcome(F, B, P, S, R, exc) ==
    [farben |-> F, brightness |-> B, telemetry_period |-> P, state |-> S,
     resp |-> R, exc |-> exc]

\* the except clause: err("format"); state = STATE_RESET
cmd_error(F, B, P) == Outcome(F, B, P, STATE_RESET, <<err("format")>>, TRUE)

is_fill_NoArity(cmd, parts) == cmd = V_FILL

\* cmd == "FILL" and len(parts) == 4
is_fill(cmd, parts) == cmd = V_FILL /\ Len(parts) = 4

\* the FILL branch: r, g, b = map(int, parts[1:4]) raises on a short slice or
\* a non-integer
cmd_fill(parts, F, B, P, S) ==
    LET args == SubSeq(parts, 2, Min2(4, Len(parts)))
        r == py_int(args[1])
        g == py_int(args[2])
        b == py_int(args[3])
    IN  IF Len(args) # 3 THEN cmd_error(F, B, P)
        ELSE IF ~(r.ok /\ g.ok /\ b.ok) THEN cmd_error(F, B, P)
        ELSE Outcome(set_all(r.val, g.val, b.val), B, P, S,
                     <<ok("FILL", <<>>, <<r.val, g.val, b.val>>)>>, FALSE)

\* the FILLHEX branch with set_all_hex(parts[1])
cmd_fillhex(parts, F, B, P, S) ==
    LET hs == lstrip_hash(strip(parts[2]))
        r == py_int16(SubSeq(hs, 1, 2))
        g == py_int16(SubSeq(hs, 3, 4))
        b == py_int16(SubSeq(hs, 5, 6))
    IN  IF Len(hs) # 6 THEN Outcome(F, B, P, S, <<err("hex")>>, FALSE)
        ELSE IF ~(r.ok /\ g.ok /\ b.ok) THEN cmd_error(F, B, P)
        ELSE Outcome(set_all(r.val, g.val, b.val), B, P, S,
                     <<ok("FILLHEX", parts[2], <<>>)>>, FALSE)

\* the BRIGHT branch
cmd_bright(parts, F, B, P, S) ==
    LET v == py_int(parts[2])
    IN  IF ~v.ok THEN cmd_error(F, B, P)
        ELSE Outcome(F, clamp_pct(v.val), P, S,
                     <<ok("BRIGHT", <<>>, <<clamp_pct(v.val)>>)>>, FALSE)

\* the OFF branch
cmd_off(F, B, P, S) ==
    Outcome(set_all(0, 0, 0), B, P, S, <<ok("OFF", <<>>, <<>>)>>, FALSE)

cmd_reset_Direct(F, B, P, S) ==
    Outcome(reset_all(F), DEFAULT_BRIGHT, P, S, <<ok("RESET", <<>>, <<>>)>>, FALSE)

\* the RESET branch: ok("RESET"); state = STATE_RESET
cmd_reset(F, B, P, S) ==
    Outcome(F, B, P, STATE_RESET, <<ok("RESET", <<>>, <<>>)>>, FALSE)

cmd_telem_RejectsNegative(parts, F, B, P, S) ==
    IF upper(parts[2]) = V_OFF
    THEN Outcome(F, B, 0, S, <<ok("TELEM", V_OFF, <<>>)>>, FALSE)
    ELSE LET v == py_float(parts[2])
         IN  IF ~v.ok THEN cmd_error(F, B, P)
             ELSE IF v.val < 0 THEN Outcome(F, B, P, S, <<err("format")>>, FALSE)
             ELSE Outcome(F, B, v.val, S, <<ok("TELEM", <<>>, <<v.val>>)>>, FALSE)

\* the TELEM branch
cmd_telem(parts, F, B, P, S) ==
    IF upper(parts[2]) = V_OFF
    THEN Outcome(F, B, 0, S, <<ok("TELEM", V_OFF, <<>>)>>, FALSE)
    ELSE LET v == py_float(parts[2])
             val == IF v.val < 0 THEN 0 ELSE v.val
         IN  IF ~v.ok THEN cmd_error(F, B, P)
             ELSE Outcome(F, B, val, S, <<ok("TELEM", <<>>, <<val>>)>>, FALSE)

\* handle_command(line), reading and assigning the globals farben,
\* pixels.brightness, telemetry_period and state
handle_command(line, F, B, P, S) ==
    IF line = <<>> THEN Outcome(F, B, P, S, <<>>, FALSE)
    ELSE
    LET parts == split(strip(line))
        cmd == upper(parts[1])
    IN  IF parts = <<>> THEN Outcome(F, B, P, S, <<>>, FALSE)
        ELSE IF is_fill(cmd, parts) THEN cmd_fill(parts, F, B, P, S)
        ELSE IF cmd = V_FILLHEX /\ Len(parts) = 2 THEN cmd_fillhex(parts, F, B, P, S)
        ELSE IF cmd = V_BRIGHT /\ Len(parts) = 2 THEN cmd_bright(parts, F, B, P, S)
        ELSE IF cmd = V_OFF THEN cmd_off(F, B, P, S)
        ELSE IF cmd = V_RESET THEN cmd_reset(F, B, P, S)
        ELSE IF cmd \in {V_GETQ, V_GET}
             THEN Outcome(F, B, P, S, <<send_status(F, B)>>, FALSE)
        ELSE IF cmd \in {V_GETTEMPQ, V_TEMPQ}
             THEN Outcome(F, B, P, S, <<Line("TEMP", "", <<>>, <<>>)>>, FALSE)
        ELSE IF cmd \in {V_GETLIGHTQ, V_LIGHTQ}
             THEN Outcome(F, B, P, S, <<Line("LIGHT", "", <<>>, <<>>)>>, FALSE)
        ELSE IF cmd \in {V_GETSENSQ, V_SENSQ}
             THEN Outcome(F, B, P, S, <<send_sens_line>>, FALSE)
        ELSE IF cmd = V_TELEM /\ Len(parts) = 2 THEN cmd_telem(parts, F, B, P, S)
        ELSE Outcome(F, B, P, S, <<err("unknown")>>, FALSE)

(***************************************************************************)
(* Byte chunks the UART can deliver in one read                            *)
(***************************************************************************)
\* 'FILL 999 -5 128\n'
C_FillClamp == <<"F", "I", "L", "L", " ", "9", "9", "9", " ", "-", "5", " ", "1", "2", "8", NL>>

\* 'FILL x 0 0\n'
C_FillBadInt == <<"F", "I", "L", "L", " ", "x", " ", "0", " ", "0", NL>>

\* 'FILL 1 2\n'
C_FillArity == <<"F", "I", "L", "L", " ", "1", " ", "2", NL>>

\* 'FILLHEX FF8800\n'
C_HexOk == <<"F", "I", "L", "L", "H", "E", "X", " ", "F", "F", "8", "8", "0", "0", NL>>

\* 'FILLHEX GG0000\n'
C_HexBadDigit == <<"F", "I", "L", "L", "H", "E", "X", " ", "G", "G", "0", "0", "0", "0", NL>>

\* 'FILLHEX 12345\n'
C_HexBadLen == <<"F", "I", "L", "L", "H", "E", "X", " ", "1", "2", "3", "4", "5", NL>>

\* 'bright 150\n'
C_BrightHigh == <<"b", "r", "i", "g", "h", "t", " ", "1", "5", "0", NL>>

\* 'BRIGHT -5\n'
C_BrightLow == <<"B", "R", "I", "G", "H", "T", " ", "-", "5", NL>>

\* 'BRIGHT x\n'
C_BrightBadInt == <<"B", "R", "I", "G", "H", "T", " ", "x", NL>>

\* 'OFF\n'
C_Off == <<"O", "F", "F", NL>>

\* 'OFF 7\n'
C_OffExtra == <<"O", "F", "F", " ", "7", NL>>

\* 'RESET\n'
C_Reset == <<"R", "E", "S", "E", "T", NL>>

\* 'GET\n'
C_Get == <<"G", "E", "T", NL>>

\* 'SENS?\n'
C_SensQ == <<"S", "E", "N", "S", "?", NL>>

\* 'TELEM 2.0\n'
C_Telem2 == <<"T", "E", "L", "E", "M", " ", "2", ".", "0", NL>>

\* 'TELEM -3\n'
C_TelemNeg == <<"T", "E", "L", "E", "M", " ", "-", "3", NL>>

\* 'TELEM off\n'
C_TelemOff == <<"T", "E", "L", "E", "M", " ", "o", "f", "f", NL>>

\* 'TELEM x\n'
C_TelemBad == <<"T", "E", "L", "E", "M", " ", "x", NL>>

\* 'BOGUS 1\n'
C_Unknown == <<"B", "O", "G", "U", "S", " ", "1", NL>>

\* ' \r\n'
C_Blank == <<" ", "\r", NL>>

\* 'FILL x 0 0\nOFF\n'
C_BadThenFill == <<"F", "I", "L", "L", " ", "x", " ", "0", " ", "0", NL, "O", "F", "F", NL>>

\* 'RESET\nFILL 999 -5 128\n'
C_ResetThenFill == <<"R", "E", "S", "E", "T", NL, "F", "I", "L", "L", " ", "9", "9", "9", " ", "-", "5", " ", "1", "2", "8", NL>>

\* 'BRI'
C_Frag == <<"B", "R", "I">>

\* 'GHT 150\n'
C_FragEnd == <<"G", "H", "T", " ", "1", "5", "0", NL>>

Chunks ==
    {C_FillClamp, C_FillBadInt, C_FillArity, C_HexOk,
     C_HexBadDigit, C_HexBadLen, C_BrightHigh, C_BrightLow,
     C_BrightBadInt, C_Off, C_OffExtra, C_Reset,
     C_Get, C_SensQ, C_Telem2, C_TelemNeg,
     C_TelemOff, C_TelemBad, C_Unknown, C_Blank,
     C_BadThenFill, C_ResetThenFill, C_Frag, C_FragEnd}

(***************************************************************************)
(* State of the node                                                       *)
(***************************************************************************)
VARIABLES
    state,             \* the ConnectionState of the main loop
    farben,            \* the logical colour buffer, one RGB triple per pixel
    brightness,        \* pixels.brightness, in percent
    rx_buf,            \* the UART line buffer
    telemetry_period,  \* in tenths of a second, 0 = off
    since,             \* time.monotonic() - telemetry_t, in tenths of a second
    connected,         \* ble.connected
    advertising,       \* the radio is advertising
    pc,                \* position of the main loop inside one tick
    resp,              \* the lines the last step of the loop wrote to the UART
    lastOp,            \* the last step the loop executed
    reset_owed         \* the except clause of handle_command ran and the
                       \* STATE_RESET branch has not run since

vars == <<state, farben, brightness, rx_buf, telemetry_period, since, connected,
          advertising, pc, resp, lastOp, reset_owed>>

VARIABLES
    burst,             \* observer: command lines handed to handle_command since
                       \* time.monotonic() last advanced
    wire,              \* LineAssembler: the bytes the node sent that no
                       \* notification has delivered yet
    fed,               \* the chunks handed to feed() so far, in order
    asm_buf,           \* LineAssembler._buf
    got,               \* the lines the feed() calls returned, concatenated
    latest,            \* PutWorker.latest: the record's number, 0 for None
    put_pc,            \* PutWorker._run: "sleep", or "put" while the PUT is awaited
    payload,           \* the local payload of PutWorker._run, 0 before the first
    submitted,         \* the number of submit() calls so far
    sent,              \* the records session.put was called with, in order
    put_op,            \* the last step PutWorker._run executed
    led_store,         \* the LED dict of the store
    last_applied,      \* LedWorker.last_applied, <<>> for None
    desire,            \* the local desire of LedWorker._apply, <<>> outside of it
    led_pc,            \* LedWorker._run: "poll", "write" inside _apply's awaits,
                       \* "done" when the task has ended
    writes,            \* the lines _apply wrote downstream in the last poll
    led_op             \* the last step LedWorker._run executed

VARIABLES
    run_pc,            \* run(): the await or test the coroutine stands at
    stop_event,        \* stop_event.is_set()
    notify_on,         \* start_notify has subscribed and stop_notify has not run
    put_task,          \* put_worker._task
    led_task,          \* led_worker.task of the session, "none" before the first
    stdin_task,        \* stdin_task of the session, "none" before the first
    put_cancels,       \* calls of put_worker._task.cancel()
    led_cancels,       \* calls of led_worker.task.cancel() in this session
    stdin_cancels,     \* calls of stdin_task.cancel() in this session
    leaked,            \* a LedWorker of an earlier session still runs, never closed
    last_end,          \* how the last discovery or session failed or ended
    waited,            \* a 3 s wait has completed since last_end
    current,           \* run(): the last-known record current
    pending,           \* the record handed to put_worker.submit and not yet
                       \* taken by the worker, <<>> for None
    norm_line,         \* the line the last handle_parsed call was given
    norm_op,           \* what the last handle_parsed call did
    tel_store,         \* STATE, the telemetry dict of the store
    store_now,         \* now_iso() of the store: the requests served so far
    put_status,        \* the status of the store's last PUT response, 0 before
    put_req,           \* the store's last PUT request
    stale,             \* the bytes the LineAssembler of the session before
                       \* this one was left with
    uart_waiting       \* the bytes written to the node's UART that the node
                       \* has not read yet (uart.in_waiting of them)

run_vars == <<run_pc, stop_event, notify_on, put_task, led_task, stdin_task,
              put_cancels, led_cancels, stdin_cancels, leaked, last_end, waited>>

norm_vars == <<current, pending, norm_line, norm_op>>

store_vars == <<tel_store, store_now, put_status, put_req>>

more_vars == <<run_vars, norm_vars, store_vars, stale, uart_waiting>>

asm_vars == <<wire, fed, asm_buf, got>>

put_vars == <<latest, put_pc, payload, submitted, sent, put_op>>

led_vars == <<led_store, last_applied, desire, led_pc, writes, led_op>>

\* the variables no step of the node's loop touches
aux_vars == <<burst, asm_vars, put_vars, led_vars, more_vars>>

HasNL(s) == \E i \in 1..Len(s) : s[i] = NL

FirstNL(s) == CHOOSE i \in 1..Len(s) : s[i] = NL /\ \A j \in 1..(i - 1) : s[j] # NL

\* a byte that is no valid UTF-8
BAD == "\\xff"

\* raw.decode("utf-8", "ignore"): invalid bytes are dropped
decode(raw) == SelectSeq(raw, LAMBDA c : c # BAD)

\* 'OF\xffF\n'
C_OffBadByte == <<"O", "F", BAD, "F", NL>>

\* what uart.read(uart.in_waiting) can return; <<>> when nothing is waiting
Reads == Chunks \cup {C_OffBadByte, <<>>}

Init ==
    /\ state = STATE_WAIT
    /\ farben = [i \in 1..NUM_PIXELS |-> DEFAULT_RGB]
    /\ brightness = DEFAULT_BRIGHT
    /\ rx_buf = <<>>
    /\ telemetry_period = DEFAULT_PERIOD
    /\ since = 0
    /\ connected = FALSE
    /\ advertising = TRUE
    /\ pc = "top"
    /\ resp = <<>>
    /\ lastOp = "boot"
    /\ reset_owed = FALSE

(***************************************************************************)
(* The main loop, one action per step of a tick                            *)
(***************************************************************************)
TickWait_WritesInfo ==
    /\ pc = "top" /\ state = STATE_WAIT
    /\ IF connected
       THEN /\ farben' = reset_all(farben)
            /\ brightness' = DEFAULT_BRIGHT
            /\ rx_buf' = <<>>
            /\ since' = 0
            /\ state' = STATE_HANDLE
            /\ lastOp' = "connect"
            /\ resp' = <<Line("INFO", "", <<>>, <<>>)>>
       ELSE /\ UNCHANGED <<farben, brightness, rx_buf, since, state>>
            /\ lastOp' = "wait"
            /\ resp' = <<>>
    /\ UNCHANGED <<telemetry_period, connected, advertising, pc, reset_owed>>

\* STATE_WAIT: blink_wait(); on ble.connected reset_all(), clear rx_buf,
\* restart the telemetry timer and go to STATE_HANDLE
TickWait ==
    /\ pc = "top" /\ state = STATE_WAIT
    /\ IF connected
       THEN /\ farben' = reset_all(farben)
            /\ brightness' = DEFAULT_BRIGHT
            /\ rx_buf' = <<>>
            /\ since' = 0
            /\ state' = STATE_HANDLE
            /\ lastOp' = "connect"
       ELSE /\ UNCHANGED <<farben, brightness, rx_buf, since, state>>
            /\ lastOp' = "wait"
    /\ resp' = <<>>
    /\ UNCHANGED <<telemetry_period, connected, advertising, pc, reset_owed>>

\* STATE_HANDLE, first part: read what is waiting on the UART into rx_buf
HandleRead ==
    /\ pc = "top" /\ state = STATE_HANDLE
    /\ \E raw \in Reads :
          /\ HasNL(raw) \/ Len(rx_buf) + Len(raw) <= MaxBuf
          /\ rx_buf' = rx_buf \o decode(raw)
          /\ pc' = IF raw # <<>> /\ HasNL(rx_buf') THEN "lines" ELSE "telem"
    /\ resp' = <<>>
    /\ lastOp' = "read"
    /\ UNCHANGED <<state, farben, brightness, telemetry_period, since, connected,
                   advertising, reset_owed>>

HandleDispatch_Limited ==
    /\ pc = "lines"
    /\ LET n == FirstNL(rx_buf)
           line == strip(SubSeq(rx_buf, 1, n - 1))
           rest == SubSeq(rx_buf, n + 1, Len(rx_buf))
           o == IF burst >= MaxRate
                THEN Outcome(farben, brightness, telemetry_period, state,
                             <<err("rate")>>, FALSE)
                ELSE handle_command(line, farben, brightness, telemetry_period, state)
       IN  /\ rx_buf' = rest
           /\ farben' = o.farben
           /\ brightness' = o.brightness
           /\ telemetry_period' = o.telemetry_period
           /\ state' = o.state
           /\ resp' = o.resp
           /\ reset_owed' = (reset_owed \/ o.exc)
           /\ pc' = IF HasNL(rest) THEN "lines" ELSE "telem"
    /\ lastOp' = "cmd"
    /\ UNCHANGED <<since, connected, advertising>>

\* STATE_HANDLE, the body of 'while "\n" in rx_buf': split one line off and
\* hand it to handle_command
HandleDispatch ==
    /\ pc = "lines"
    /\ LET n == FirstNL(rx_buf)
           line == strip(SubSeq(rx_buf, 1, n - 1))
           rest == SubSeq(rx_buf, n + 1, Len(rx_buf))
           o == handle_command(line, farben, brightness, telemetry_period, state)
       IN  /\ rx_buf' = rest
           /\ farben' = o.farben
           /\ brightness' = o.brightness
           /\ telemetry_period' = o.telemetry_period
           /\ state' = o.state
           /\ resp' = o.resp
           /\ reset_owed' = (reset_owed \/ o.exc)
           /\ pc' = IF HasNL(rest) THEN "lines" ELSE "telem"
    /\ lastOp' = "cmd"
    /\ UNCHANGED <<since, connected, advertising>>

\* STATE_HANDLE, periodic telemetry
HandleTelem ==
    /\ pc = "telem"
    /\ IF telemetry_period > 0 /\ since >= telemetry_period
       THEN since' = 0 /\ resp' = <<send_sens_line>>
       ELSE since' = since /\ resp' = <<>>
    /\ pc' = "link"
    /\ lastOp' = "telem"
    /\ UNCHANGED <<state, farben, brightness, rx_buf, telemetry_period, connected,
                   advertising, reset_owed>>

HandleLink_StaysActive ==
    /\ pc = "link"
    /\ advertising' = advertising /\ state' = state
    /\ pc' = "top"
    /\ resp' = <<>>
    /\ lastOp' = "link"
    /\ UNCHANGED <<farben, brightness, rx_buf, telemetry_period, since, connected,
                   reset_owed>>

\* STATE_HANDLE, connection supervision at the end of the tick
HandleLink ==
    /\ pc = "link"
    /\ IF ~connected
       THEN advertising' = TRUE /\ state' = STATE_WAIT
       ELSE advertising' = advertising /\ state' = state
    /\ pc' = "top"
    /\ resp' = <<>>
    /\ lastOp' = "link"
    /\ UNCHANGED <<farben, brightness, rx_buf, telemetry_period, since, connected,
                   reset_owed>>

after_reset_AlwaysHandle(conn) == STATE_HANDLE

\* the successor the STATE_RESET branch chooses from ble.connected
after_reset(conn) == IF ~conn THEN STATE_WAIT ELSE STATE_HANDLE

\* STATE_RESET: reset_all(), clear rx_buf, restart the telemetry timer, then
\* advertise and wait, or go back to STATE_HANDLE
TickReset ==
    /\ pc = "top" /\ state = STATE_RESET
    /\ farben' = reset_all(farben)
    /\ brightness' = DEFAULT_BRIGHT
    /\ rx_buf' = <<>>
    /\ since' = 0
    /\ state' = after_reset(connected)
    /\ advertising' = IF ~connected THEN TRUE ELSE advertising
    /\ resp' = <<>>
    /\ lastOp' = "reset"
    /\ reset_owed' = FALSE
    /\ UNCHANGED <<telemetry_period, connected, pc>>

except_state_Handle == STATE_HANDLE

\* the state the top-level except clause assigns after blinken_error()
except_state == STATE_RESET

\* An exception escapes the tick (a driver or allocation error): the work the
\* branch did before it is kept (p tells how far STATE_WAIT's connect sequence
\* or STATE_RESET got), then blinken_error() and state = STATE_RESET.
FaultTick ==
    /\ \E p \in 0..2 :
          LET branch == IF pc = "top" THEN state ELSE STATE_HANDLE
              resets == \/ branch = STATE_RESET /\ p >= 1
                        \/ branch = STATE_WAIT /\ connected /\ p >= 1
              clears == branch = STATE_RESET /\ p = 2
          IN  /\ farben' = IF resets THEN reset_all(farben) ELSE farben
              /\ brightness' = IF resets THEN DEFAULT_BRIGHT ELSE brightness
              /\ rx_buf' = IF clears THEN <<>> ELSE rx_buf
              /\ since' = IF clears THEN 0 ELSE since
    /\ state' = except_state
    /\ pc' = "top"
    /\ resp' = <<>>
    /\ lastOp' = "fault"
    /\ UNCHANGED <<telemetry_period, connected, advertising, reset_owed>>

(***************************************************************************)
(* The environment: the central, and time                                  *)
(***************************************************************************)
LinkUp ==
    /\ advertising /\ ~connected
    /\ connected' = TRUE
    /\ advertising' = FALSE
    /\ UNCHANGED <<state, farben, brightness, rx_buf, telemetry_period, since, pc,
                   resp, lastOp, reset_owed>>

LinkDown ==
    /\ connected
    /\ connected' = FALSE
    /\ UNCHANGED <<state, farben, brightness, rx_buf, telemetry_period, since,
                   advertising, pc, resp, lastOp, reset_owed>>

\* time.monotonic() advances by one second
TimePasses ==
    /\ since < MaxSince
    /\ since' = Min2(since + 10, MaxSince)
    /\ UNCHANGED <<state, farben, brightness, rx_buf, telemetry_period, connected,
                   advertising, pc, resp, lastOp, reset_owed>>

\* the steps of the node's own loop
NodeNext ==
    \/ TickWait
    \/ HandleRead
    \/ HandleDispatch
    \/ HandleTelem
    \/ HandleLink
    \/ TickReset
    \/ FaultTick

\* LED of the store before the first PUT /led, updatedAt 0 for None
LED == [on |-> FALSE, rgb |-> <<255, 160, 0>>, brightness |-> 20, updatedAt |-> 0]

\* a LineAssembler nothing is sent to
AsmIdle == wire = <<>> /\ fed = <<>> /\ asm_buf = <<>> /\ got = <<>>

\* PutWorker.__init__ and start()
PutInit ==
    /\ latest = 0
    /\ put_pc = "sleep"
    /\ payload = 0
    /\ submitted = 0
    /\ sent = <<>>
    /\ put_op = "boot"

\* LedWorker.__init__ and start(), and the store as it starts
LedInit ==
    /\ led_store = LED
    /\ last_applied = <<>>
    /\ desire = <<>>
    /\ led_pc = "poll"
    /\ writes = <<>>
    /\ led_op = "boot"

\* run() up to its while loop: stop_event is clear and put_worker is started
RunInit ==
    /\ run_pc = "loop"
    /\ stop_event = FALSE
    /\ notify_on = FALSE
    /\ put_task = "running"
    /\ led_task = "none"
    /\ stdin_task = "none"
    /\ put_cancels = 0
    /\ led_cancels = 0
    /\ stdin_cancels = 0
    /\ leaked = FALSE
    /\ last_end = "none"
    /\ waited = TRUE

\* current of run() as it starts: 20.0 degrees in tenths, raw 0, norm 0.0 in tenths
START_RECORD == [temperatureC |-> 200, raw |-> 0, norm |-> 0]

NormInit ==
    /\ current = START_RECORD
    /\ pending = <<>>
    /\ norm_line = [text |-> <<>>, obj |-> <<>>]
    /\ norm_op = "boot"

\* STATE of the store as it starts, its timestamp the time 0 of the start
StoreInit ==
    /\ tel_store = [temperatureC |-> 200, raw |-> 0, norm |-> 0,
                    timestamp |-> [given |-> FALSE, at |-> 0]]
    /\ store_now = 0
    /\ put_status = 0
    /\ put_req = [path |-> "", body |-> <<>>]

MoreInit == RunInit /\ NormInit /\ StoreInit /\ stale = <<>> /\ uart_waiting = <<>>

\* the node as it boots, beside a bridge that has not started
InitNode == Init /\ burst = 0 /\ AsmIdle /\ PutInit /\ LedInit /\ MoreInit

\* the node alone: the bridge stands still
Next ==
    \/ TickWait /\ UNCHANGED aux_vars
    \/ HandleRead /\ UNCHANGED aux_vars
    \/ HandleDispatch /\ UNCHANGED aux_vars
    \/ HandleTelem /\ UNCHANGED aux_vars
    \/ HandleLink /\ UNCHANGED aux_vars
    \/ TickReset /\ UNCHANGED aux_vars
    \/ FaultTick /\ UNCHANGED aux_vars
    \/ LinkUp /\ UNCHANGED aux_vars
    \/ LinkDown /\ UNCHANGED aux_vars
    \/ TimePasses /\ UNCHANGED aux_vars

Spec == InitNode /\ [][Next]_vars

\* the node with the observer burst: the lines dispatched since the clock last
\* advanced by a second, counted up to MaxRate + 1
NextRate ==
    \/ TickWait /\ UNCHANGED aux_vars
    \/ HandleRead /\ UNCHANGED aux_vars
    \/ /\ HandleDispatch
       /\ burst' = Min2(burst + 1, MaxRate + 1)
       /\ UNCHANGED <<asm_vars, put_vars, led_vars, more_vars>>
    \/ HandleTelem /\ UNCHANGED aux_vars
    \/ HandleLink /\ UNCHANGED aux_vars
    \/ TickReset /\ UNCHANGED aux_vars
    \/ FaultTick /\ UNCHANGED aux_vars
    \/ LinkUp /\ UNCHANGED aux_vars
    \/ LinkDown /\ UNCHANGED aux_vars
    \/ TimePasses /\ burst' = 0 /\ UNCHANGED <<asm_vars, put_vars, led_vars, more_vars>>

SpecRate == InitNode /\ [][NextRate]_<<vars, burst>>

(***************************************************************************)
(* Vocabulary of the properties                                            *)
(***************************************************************************)
\* the line the next HandleDispatch step hands to handle_command
CurLine == strip(SubSeq(rx_buf, 1, FirstNL(rx_buf) - 1))

CurParts == split(CurLine)

CurCmd == upper(CurParts[1])

\* this step is one call of handle_command
DispatchStep == pc = "lines" /\ lastOp' = "cmd" /\ Len(rx_buf') < Len(rx_buf)

KnownVerbs ==
    {V_FILL, V_FILLHEX, V_BRIGHT, V_OFF, V_RESET, V_GET, V_GETQ, V_TEMPQ, V_GETTEMPQ,
     V_LIGHTQ, V_GETLIGHTQ, V_SENSQ, V_GETSENSQ, V_TELEM}

\* the verbs whose branch checks len(parts)
ArgVerbs == {V_FILL, V_FILLHEX, V_BRIGHT, V_TELEM}

PartsOf(cmd) == IF cmd = V_FILL THEN 4 ELSE 2

UnknownVerb == CurParts # <<>> /\ CurCmd \notin KnownVerbs

\* a verb that takes arguments, with another number of them
WrongArity ==
    CurParts # <<>> /\ CurCmd \in ArgVerbs /\ Len(CurParts) # PartsOf(CurCmd)

RightArity ==
    CurParts # <<>> /\ CurCmd \in ArgVerbs /\ Len(CurParts) = PartsOf(CurCmd)

HexBody == lstrip_hash(strip(CurParts[2]))

\* FILLHEX with a text that has not six characters
HexBadLength == RightArity /\ CurCmd = V_FILLHEX /\ Len(HexBody) # 6

\* the right number of arguments, one of which is no number
NonNumeric ==
    /\ RightArity
    /\ \/ CurCmd = V_FILL /\ \E i \in 2..4 : ~py_int(CurParts[i]).ok
       \/ CurCmd = V_BRIGHT /\ ~py_int(CurParts[2]).ok
       \/ CurCmd = V_TELEM /\ upper(CurParts[2]) # V_OFF /\ ~py_float(CurParts[2]).ok
       \/ /\ CurCmd = V_FILLHEX /\ Len(HexBody) = 6
          /\ \E i \in 1..6 : HexBody[i] \notin HexDigits

\* a line the command grammar of handle_command rejects
Malformed == UnknownVerb \/ WrongArity \/ HexBadLength \/ NonNumeric

WritesErr(r) == \E k \in 1..Len(r) : r[k].kind = "ERR"

ActuatorsKept ==
    /\ farben' = farben
    /\ brightness' = brightness
    /\ telemetry_period' = telemetry_period

InRange(F, B) ==
    /\ \A i \in 1..NUM_PIXELS : \A k \in 1..3 : F[i][k] \in 0..255
    /\ B \in 0..100

AllDefault(F) == \A i \in 1..NUM_PIXELS : F[i] = DEFAULT_RGB

(***************************************************************************)
(* Properties                                                              *)
(***************************************************************************)
\* C1 (as claimed): once handling a command line has raised, the forced
\* transition to RESETTING is never lost: every tick that starts before the
\* STATE_RESET branch has run is a tick in RESETTING, also when the link
\* dropped in the tick of the exception.
C1_ForcedResetNotLost == (pc = "top" /\ reset_owed) => state = STATE_RESET

\* C2 (as claimed): every malformed line dispatched while ACTIVE (unknown verb,
\* wrong number of arguments, non-numeric argument) is answered with an ERR
\* line and changes neither the colour buffer, the brightness, the telemetry
\* period nor the ConnectionState.
C2_MalformedChangesNothing ==
    [][(DispatchStep /\ state = STATE_HANDLE /\ Malformed)
         => (WritesErr(resp') /\ ActuatorsKept /\ state' = state)]_vars

\* C2 (amended): an unknown verb, or FILL/FILLHEX/BRIGHT/TELEM with a wrong
\* number of arguments, is answered ERR unknown, and FILLHEX with a text of
\* the wrong length ERR hex, with colour buffer, brightness, telemetry period
\* and ConnectionState unchanged; a non-numeric argument is answered ERR
\* format with colour buffer, brightness and telemetry period unchanged, and
\* sets the ConnectionState to RESETTING.
C2_MalformedAnswered ==
    [][DispatchStep =>
         /\ (UnknownVerb \/ WrongArity)
               => (resp' = <<err("unknown")>> /\ ActuatorsKept /\ state' = state)
         /\ HexBadLength
               => (resp' = <<err("hex")>> /\ ActuatorsKept /\ state' = state)
         /\ NonNumeric
               => (resp' = <<err("format")>> /\ ActuatorsKept /\ state' = STATE_RESET)]_vars

\* C2 witness: a non-numeric argument was answered ERR format and forced
\* RESETTING while the colour buffer still holds an earlier command's colour.
C2_Witness ==
    /\ lastOp = "cmd" /\ resp = <<err("format")>> /\ state = STATE_RESET
    /\ reset_owed /\ farben[1] = <<255, 136, 0>> /\ brightness = 100

\* C3: every cell of the colour buffer has its three components in 0..255
\* and the brightness is within 0..100 percent, in every reachable state.
C3_StoredInRange == InRange(farben, brightness)

\* C3 witness: out-of-range FILL and BRIGHT arguments were stored clamped.
C3_Witness == farben[1] = <<255, 0, 128>> /\ brightness = 100 /\ lastOp = "cmd"

\* C4 (as claimed): the OK response of FILL carries the clamped values that
\* were stored in the colour buffer.
C4_OkCarriesStored ==
    \A k \in 1..Len(resp) :
        (resp[k].kind = "OK" /\ resp[k].verb = "FILL")
            => \A i \in 1..NUM_PIXELS : farben[i] = resp[k].args

\* C5: when the STATE_RESET branch has completed, every cell holds the default
\* colour, the brightness is the default and the line buffer is empty.
C5_ResetRestoresDefaults ==
    lastOp = "reset"
        => (AllDefault(farben) /\ brightness = DEFAULT_BRIGHT /\ rx_buf = <<>>)

\* C5 witness: a reset completed after a TELEM OFF command had been executed.
C5_Witness == lastOp = "reset" /\ telemetry_period = 0 /\ AllDefault(farben)

\* C6 (as claimed): when the STATE_RESET branch has completed, the telemetry
\* period is the default of one second.
C6_ResetRestoresPeriod == lastOp = "reset" => telemetry_period = DEFAULT_PERIOD

\* C7 (as claimed): a tick that starts in RESETTING always leaves RESETTING,
\* for ACTIVE when the link is up and else, advertising, for AWAITING_LINK.
C7_ResetLastsOneTick ==
    [][(pc = "top" /\ state = STATE_RESET /\ NodeNext)
         => /\ state' = IF connected THEN STATE_HANDLE ELSE STATE_WAIT
            /\ ~connected => advertising']_vars

\* C7 (amended): a tick that starts in RESETTING and completes leaves
\* RESETTING, for ACTIVE only when the link is up and else, advertising, for
\* AWAITING_LINK; the engine remains in RESETTING only when an exception
\* escapes that tick.
C7_ResetSuccessor ==
    [][(pc = "top" /\ state = STATE_RESET /\ NodeNext)
         => \/ /\ lastOp' = "reset"
               /\ state' = IF connected THEN STATE_HANDLE ELSE STATE_WAIT
               /\ ~connected => advertising'
            \/ lastOp' = "fault" /\ state' = STATE_RESET]_vars

\* C7 witness: a reset completed with the link down.
C7_Witness ==
    lastOp = "reset" /\ state = STATE_WAIT /\ advertising /\ ~connected /\ pc = "top"

\* C8: the RESET command writes OK RESET and sets the state to RESETTING and
\* leaves the colour buffer and the brightness as they are.
C8_ResetCommandDefers ==
    [][(DispatchStep /\ CurParts # <<>> /\ CurCmd = V_RESET)
         => /\ resp' = <<ok("RESET", <<>>, <<>>)>>
            /\ state' = STATE_RESET
            /\ farben' = farben /\ brightness' = brightness]_vars

\* C8 witness: OK RESET is written and the colour buffer and the brightness
\* still hold what earlier commands set.
C8_Witness ==
    /\ lastOp = "cmd" /\ resp = <<ok("RESET", <<>>, <<>>)>> /\ state = STATE_RESET
    /\ farben[1] = <<255, 0, 128>> /\ brightness = 0

\* the loop stands before a branch it can run: at the start of a tick in one
\* of the three states that are ever assigned, or inside the STATE_HANDLE branch
LoopCanRun ==
    \/ pc = "top" /\ state \in {STATE_WAIT, STATE_HANDLE, STATE_RESET}
    \/ pc = "lines" /\ HasNL(rx_buf)
    \/ pc \in {"telem", "link"}

ConnectStep == pc = "top" /\ state = STATE_WAIT /\ state' = STATE_HANDLE

\* C11 (as claimed): every AWAITING_LINK to ACTIVE transition writes exactly
\* one info line to the UART (and so before any telemetry frame of the new
\* session).
C11_ConnectWritesInfo ==
    [][ConnectStep => (Len(resp') = 1 /\ resp'[1].kind = "INFO")]_vars

\* C11 (amended): an AWAITING_LINK to ACTIVE transition writes no line at all
\* to the UART; it restores the default colours and brightness, empties the
\* line buffer and restarts the telemetry timer, so that the tick of the
\* transition writes no telemetry frame either.
C11_ConnectWritesNothing ==
    [][ConnectStep
         => /\ resp' = <<>> /\ lastOp' = "connect" /\ connected
            /\ since' = 0 /\ rx_buf' = <<>>
            /\ AllDefault(farben') /\ brightness' = DEFAULT_BRIGHT]_vars

\* C11 witness: a reconnect after a link drop: ACTIVE is entered with the
\* telemetry period an earlier session had set.
C11_Witness ==
    /\ lastOp = "connect" /\ state = STATE_HANDLE /\ resp = <<>>
    /\ telemetry_period = 20 /\ connected

\* the connection supervision at the end of a tick of the STATE_HANDLE branch
LinkCheckStep == pc = "link" /\ pc' = "top" /\ lastOp' = "link"

NegativeTelem ==
    /\ RightArity /\ CurCmd = V_TELEM /\ upper(CurParts[2]) # V_OFF
    /\ py_float(CurParts[2]).ok /\ py_float(CurParts[2]).val < 0

\* C13 (as claimed): a TELEM command with a negative number of seconds is
\* answered with an ERR line and leaves the telemetry period unchanged.
C13_NegativeTelemRejected ==
    [][(DispatchStep /\ NegativeTelem)
         => (WritesErr(resp') /\ telemetry_period' = telemetry_period)]_vars

\* C13 (amended): a TELEM command with a negative number of seconds is
\* clamped to 0: it is answered OK TELEM 0.0 and sets the telemetry period to
\* 0, which disables telemetry; the period changes only by a TELEM command
\* with a number (negative ones taken as 0) or OFF.
C13_NegativeTelemClamped ==
    [][/\ (DispatchStep /\ NegativeTelem)
             => /\ resp' = <<ok("TELEM", <<>>, <<0>>)>>
                /\ telemetry_period' = 0
                /\ state' = state
       /\ telemetry_period' # telemetry_period
             => /\ DispatchStep /\ RightArity /\ CurCmd = V_TELEM
                /\ \/ upper(CurParts[2]) = V_OFF /\ telemetry_period' = 0
                   \/ /\ py_float(CurParts[2]).ok
                      /\ telemetry_period' = Max2(0, py_float(CurParts[2]).val)]_vars

\* C13 witness: TELEM with a number was answered OK TELEM 0.0 and telemetry
\* is off.
C13_Witness ==
    /\ lastOp = "cmd" /\ resp = <<ok("TELEM", <<>>, <<0>>)>>
    /\ telemetry_period = 0 /\ state = STATE_HANDLE

\* a command line that handle_command executes without an error
WellFormed == CurParts # <<>> /\ ~Malformed

\* C14 (as claimed, for N = MaxRate): at most N command lines are executed
\* while the clock shows the same second.
C14_AtMostNPerSecond == burst <= MaxRate

\* C14 (amended): the node has no rate limiter: every complete command line is
\* handed to handle_command in the tick that read it, however many were
\* executed in the same second, and a well-formed one is never answered with
\* an error.
C14_NoRateLimit ==
    [][(pc = "lines" /\ NodeNext /\ lastOp' # "fault")
         => /\ DispatchStep
            /\ resp' = handle_command(CurLine, farben, brightness,
                                      telemetry_period, state).resp
            /\ WellFormed => ~WritesErr(resp')]_<<vars, burst>>

\* C14 witness: one more than N commands were executed within one second and
\* the last of them was answered OK.
C14_Witness ==
    /\ burst = MaxRate + 1 /\ lastOp = "cmd"
    /\ Len(resp) = 1 /\ resp[1].kind = "OK"

(***************************************************************************)
(* The bridge: LineAssembler                                               *)
(***************************************************************************)
CR == "\r"

\* the two bytes of a two-byte UTF-8 character, and the character
LEAD == "\\xc3"

CONT == "\\xa9"

E_ACUTE == "e'"

\* the bytes the streams are drawn from
Bytes == {"a", CR, NL, LEAD, CONT}

\* bytes.decode("utf-8", "ignore"): a lead byte with its continuation byte is
\* one character; a lead byte without one, and a stray continuation byte, are
\* dropped
RECURSIVE decode_utf8(_)
decode_utf8(b) ==
    IF b = <<>> THEN <<>>
    ELSE IF Head(b) = LEAD
         THEN IF Len(b) >= 2 /\ b[2] = CONT
              THEN <<E_ACUTE>> \o decode_utf8(SubSeq(b, 3, Len(b)))
              ELSE decode_utf8(Tail(b))
    ELSE IF Head(b) = CONT THEN decode_utf8(Tail(b))
    ELSE <<Head(b)>> \o decode_utf8(Tail(b))

\* str.rstrip("\r")
RECURSIVE rstrip_cr(_)
rstrip_cr(s) ==
    IF s # <<>> /\ s[Len(s)] = CR THEN rstrip_cr(SubSeq(s, 1, Len(s) - 1)) ELSE s

\* the while loop of feed: cut the buffer at each 0x0A, decode each piece
RECURSIVE cut_lines(_)
cut_lines(b) ==
    IF ~HasNL(b) THEN [buf |-> b, out |-> <<>>]
    ELSE LET i == FirstNL(b)
             r == cut_lines(SubSeq(b, i + 1, Len(b)))
         IN  [buf |-> r.buf,
              out |-> <<rstrip_cr(decode_utf8(SubSeq(b, 1, i - 1)))>> \o r.out]

feed_ForgetsBuffer(buf, data) == cut_lines(data)

\* LineAssembler.feed(data) on the buffer buf: the buffer it leaves and the
\* lines it returns
feed(buf, data) == cut_lines(buf \o data)

\* every byte sequence of up to MaxStream bytes
Streams == UNION {[1..n -> Bytes] : n \in 0..MaxStream}

AsmInit == wire \in Streams /\ fed = <<>> /\ asm_buf = <<>> /\ got = <<>>

InitAssembler == Init /\ burst = 0 /\ AsmInit /\ PutInit /\ LedInit /\ MoreInit

\* one notification: the next k bytes of the stream are handed to feed
FeedChunk ==
    /\ wire # <<>>
    /\ \E k \in 1..Len(wire) :
          LET data == SubSeq(wire, 1, k)
              r == feed(asm_buf, data)
          IN  /\ asm_buf' = r.buf
              /\ got' = got \o r.out
              /\ fed' = Append(fed, data)
              /\ wire' = SubSeq(wire, k + 1, Len(wire))

NextAssembler == FeedChunk /\ UNCHANGED <<vars, burst, put_vars, led_vars, more_vars>>

SpecAssembler == InitAssembler /\ [][NextAssembler]_asm_vars

\* the bytes of a list of chunks
RECURSIVE Flat(_)
Flat(cs) == IF cs = <<>> THEN <<>> ELSE Head(cs) \o Flat(Tail(cs))

NLs(s) == {i \in 1..Len(s) : s[i] = NL}

\* the position of the k-th newline of s
NthNL(s, k) == CHOOSE i \in NLs(s) : Cardinality({j \in NLs(s) : j <= i}) = k

\* the newline-terminated lines of the whole stream s, in order
LinesOf(s) ==
    [k \in 1..Cardinality(NLs(s)) |->
        LET from == IF k = 1 THEN 1 ELSE NthNL(s, k - 1) + 1
        IN  rstrip_cr(decode_utf8(SubSeq(s, from, NthNL(s, k) - 1)))]

\* the bytes of s after its last newline
TailOf(s) ==
    LET last == IF NLs(s) = {} THEN 0 ELSE NthNL(s, Cardinality(NLs(s)))
    IN  SubSeq(s, last + 1, Len(s))

\* C15: however the stream is cut into chunks, the lines the feed calls have
\* returned so far are exactly the newline-terminated lines of the bytes fed
\* so far, in order, and the bytes after the last newline are in the buffer.
C15_ChunkingIsInvisible ==
    /\ got = LinesOf(Flat(fed))
    /\ asm_buf = TailOf(Flat(fed))

\* C15 witness: a line whose two-byte character was cut apart by the chunking
\* has been returned, and the fragment that followed its newline in the same
\* chunk stays buffered.
C15_Witness ==
    /\ fed = <<<<LEAD>>, <<CONT>>, <<NL, "a">>>>
    /\ got = <<<<E_ACUTE>>>> /\ asm_buf = <<"a">> /\ wire = <<>>

(***************************************************************************)
(* The bridge: PutWorker.  A record is known by the number of the submit   *)
(* call that handed it in, 1, 2, ...; 0 stands for None.                   *)
(***************************************************************************)
submit_KeepsOldest ==
    /\ submitted < MaxRecords
    /\ submitted' = submitted + 1
    /\ latest' = IF latest = 0 THEN submitted + 1 ELSE latest
    /\ UNCHANGED <<put_pc, payload, sent, put_op>>

\* PutWorker.submit(state)
submit ==
    /\ submitted < MaxRecords
    /\ submitted' = submitted + 1
    /\ latest' = submitted + 1
    /\ UNCHANGED <<put_pc, payload, sent, put_op>>

put_tick_KeepsSlot ==
    /\ put_pc = "sleep"
    /\ IF latest = 0
       THEN /\ put_op' = "idle"
            /\ UNCHANGED <<latest, payload, sent, put_pc>>
       ELSE /\ payload' = latest
            /\ sent' = Append(sent, latest)
            /\ put_pc' = "put"
            /\ put_op' = "take"
            /\ UNCHANGED latest
    /\ UNCHANGED submitted

\* _run after its sleep: leave an empty slot alone, else take the record out
\* of the slot and call session.put with it
put_tick ==
    /\ put_pc = "sleep"
    /\ IF latest = 0
       THEN /\ put_op' = "idle"
            /\ UNCHANGED <<latest, payload, sent, put_pc>>
       ELSE /\ payload' = latest
            /\ latest' = 0
            /\ sent' = Append(sent, latest)
            /\ put_pc' = "put"
            /\ put_op' = "take"
    /\ UNCHANGED submitted

put_done_Requeues ==
    /\ put_pc = "put"
    /\ \E answered \in BOOLEAN :
          /\ put_op' = IF answered THEN "ok" ELSE "failed"
          /\ latest' = IF ~answered /\ latest = 0 THEN payload ELSE latest
    /\ put_pc' = "sleep"
    /\ UNCHANGED <<payload, submitted, sent>>

\* the awaited PUT ends: with a response, or with an exception that the
\* except clause prints; either way _run goes back to its sleep
put_done ==
    /\ put_pc = "put"
    /\ \E answered \in BOOLEAN : put_op' = IF answered THEN "ok" ELSE "failed"
    /\ put_pc' = "sleep"
    /\ UNCHANGED <<latest, payload, submitted, sent>>

InitUplink == Init /\ burst = 0 /\ AsmIdle /\ PutInit /\ LedInit /\ MoreInit

NextUplink ==
    \/ submit /\ UNCHANGED <<vars, burst, asm_vars, led_vars, more_vars>>
    \/ put_tick /\ UNCHANGED <<vars, burst, asm_vars, led_vars, more_vars>>
    \/ put_done /\ UNCHANGED <<vars, burst, asm_vars, led_vars, more_vars>>

SpecUplink == InitUplink /\ [][NextUplink]_put_vars

\* a step of _run that ends its sleep
PutTickStep == put_pc = "sleep" /\ submitted' = submitted

\* C16: the slot holds nothing or the record submitted last; a tick that
\* finds a record performs one send, of the record submitted last, and
\* empties the slot; a tick that finds the slot empty sends nothing; nothing
\* is sent between ticks.
C16_TickSendsLastOnce ==
    /\ [](latest \in {0, submitted})
    /\ [][/\ PutTickStep
             => IF latest = 0
                THEN sent' = sent /\ put_pc' = "sleep" /\ put_op' = "idle"
                ELSE /\ sent' = Append(sent, submitted)
                     /\ payload' = submitted
                     /\ latest' = 0
                     /\ put_pc' = "put"
          /\ ~PutTickStep => sent' = sent]_put_vars

\* C16 witness: records 1 and 2 were submitted before the first tick and 3
\* and 4 before the second: the two ticks sent 2 and 4.
C16_Witness == sent = <<2, 4>> /\ latest = 0 /\ put_pc = "put"

\* C17: no record is sent twice; the slot holds only a record submitted after
\* every record that was taken; after a failed PUT the worker is back in its
\* sleep and the failed record is not in the slot.
C17_FailedRecordIsDropped ==
    /\ \A i, j \in 1..Len(sent) : i < j => sent[i] < sent[j]
    /\ latest # 0 => \A i \in 1..Len(sent) : sent[i] < latest
    /\ put_op = "failed"
          => /\ put_pc = "sleep"
             /\ payload = sent[Len(sent)]
             /\ latest # payload

\* C17 witness: the PUT of record 2 failed while record 3 was submitted.
C17_Witness ==
    put_op = "failed" /\ payload = 2 /\ sent = <<2>> /\ latest = 3 /\ put_pc = "sleep"

(***************************************************************************)
(* The store's LED dict and the bridge's LedWorker.  An optional dict is a *)
(* sequence: <<>> for None, <<d>> for the dict d.                          *)
(***************************************************************************)
\* _clamp_int of the store, for an int
store_clamp_int(v, lo, hi) == Max2(lo, Min2(hi, v))

\* the rgb and brightness values a PUT /led request carries
PutRGBs == {<<0, 0, 255>>, <<300, -1, 7>>}

PutBrightnesses == {80, 150}

\* do_PUT for /led with a valid body: clamp, stamp and store it; updatedAt
\* counts the requests
do_PUT_led ==
    /\ led_store.updatedAt < MaxStamp
    /\ \E on \in BOOLEAN, rgb \in PutRGBs, bri \in PutBrightnesses :
          led_store' =
              [on |-> on,
               rgb |-> <<store_clamp_int(rgb[1], 0, 255), store_clamp_int(rgb[2], 0, 255),
                         store_clamp_int(rgb[3], 0, 255)>>,
               brightness |-> store_clamp_int(bri, 0, 100),
               updatedAt |-> led_store.updatedAt + 1]
    /\ UNCHANGED <<last_applied, desire, led_pc, writes, led_op>>

\* str(n) for an int n
RECURSIVE str_nat(_)
str_nat(n) ==
    IF n < 10 THEN <<CHOOSE c \in Digits : DigitVal(c) = n>>
    ELSE str_nat(n \div 10) \o <<CHOOSE c \in Digits : DigitVal(c) = n % 10>>

str_int(n) == IF n < 0 THEN <<"-">> \o str_nat(-n) ELSE str_nat(n)

\* f"BRIGHT {bri}\n"
bright_cmd(bri) == V_BRIGHT \o <<" ">> \o str_int(bri) \o <<NL>>

\* f"FILL {r} {g} {b}\n"
fill_cmd(rgb) ==
    V_FILL \o <<" ">> \o str_int(rgb[1]) \o <<" ">> \o str_int(rgb[2]) \o <<" ">>
        \o str_int(rgb[3]) \o <<NL>>

\* b"OFF\n"
off_cmd == V_OFF \o <<NL>>

needs_apply_NoCompare(fetched, applied) == fetched # <<>>

\* the two early returns of _apply: nothing fetched, or what was applied last
needs_apply(fetched, applied) == fetched # <<>> /\ fetched # applied

apply_lines_BrightAlways(d) ==
    IF d.on THEN <<bright_cmd(d.brightness), fill_cmd(d.rgb)>>
    ELSE <<bright_cmd(d.brightness), off_cmd>>

\* the lines _apply writes for the dict d, in order
apply_lines(d) ==
    IF d.on THEN <<bright_cmd(d.brightness), fill_cmd(d.rgb)>> ELSE <<off_cmd>>

\* one turn of _run up to the first await of _apply: _fetch_desired returns
\* the store's dict, or None on an exception or a status other than 200
LedPoll ==
    /\ led_pc = "poll"
    /\ \E fetched \in {<<>>, <<led_store>>} :
          IF needs_apply(fetched, last_applied)
          THEN /\ desire' = fetched
               /\ led_pc' = "write"
               /\ led_op' = "changed"
          ELSE /\ desire' = <<>>
               /\ led_pc' = "poll"
               /\ led_op' = IF fetched = <<>> THEN "nofetch" ELSE "same"
    /\ writes' = <<>>
    /\ UNCHANGED <<led_store, last_applied>>

\* one awaited client_write of _apply.  When it returns, the next line
\* follows, and after the last one last_applied is assigned and _run sleeps;
\* when it raises, the exception leaves _apply and _run, whose only except
\* clause is for CancelledError, and the task has ended.
LedWrite ==
    /\ led_pc = "write"
    /\ LET lines == apply_lines(desire[1])
           k == Len(writes) + 1
       IN  \E written \in BOOLEAN :
              IF ~written
              THEN /\ led_pc' = "done"
                   /\ led_op' = "crash"
                   /\ UNCHANGED <<last_applied, desire, writes>>
              ELSE /\ writes' = Append(writes, lines[k])
                   /\ IF k = Len(lines)
                      THEN /\ last_applied' = desire
                           /\ desire' = <<>>
                           /\ led_pc' = "poll"
                           /\ led_op' = "applied"
                      ELSE /\ led_op' = "wrote"
                           /\ UNCHANGED <<last_applied, desire, led_pc>>
    /\ UNCHANGED led_store

InitLed == Init /\ burst = 0 /\ AsmIdle /\ PutInit /\ LedInit /\ MoreInit

NextLed ==
    \/ do_PUT_led /\ UNCHANGED <<vars, burst, asm_vars, put_vars, more_vars>>
    \/ LedPoll /\ UNCHANGED <<vars, burst, asm_vars, put_vars, more_vars>>
    \/ LedWrite /\ UNCHANGED <<vars, burst, asm_vars, put_vars, more_vars>>

SpecLed == InitLed /\ [][NextLed]_led_vars

\* a step of the worker that starts a poll
LedPollStep == led_pc = "poll" /\ led_store' = led_store

\* C18: a poll while the store holds what was applied last writes nothing and
\* leaves last_applied alone; lines are written only for a fetched dict that
\* differs from the one applied last.
C18_EqualDesireWritesNothing ==
    /\ [](led_pc = "write" => (desire # <<>> /\ desire # last_applied))
    /\ [][/\ (LedPollStep /\ last_applied = <<led_store>>)
             => (led_pc' = "poll" /\ writes' = <<>> /\ last_applied' = last_applied)
          /\ (writes' # writes /\ writes' # <<>>)
             => (led_pc = "write" /\ desire # last_applied)]_led_vars

\* C18 witness: a poll fetched the dict that a PUT /led had stored and that
\* the worker had applied, and did nothing.
C18_Witness ==
    /\ led_op = "same" /\ last_applied = <<led_store>> /\ led_store.updatedAt = 1
    /\ led_store.on /\ writes = <<>> /\ led_pc = "poll"

\* C19 (as claimed): whenever a new value becomes last-applied, the worker has
\* written the brightness command and after it the colour command or the off
\* command.
C19_BrightnessAlwaysFirst ==
    [][last_applied' # last_applied
         => /\ Len(writes') = 2
            /\ SubSeq(writes'[1], 1, Len(V_BRIGHT)) = V_BRIGHT
            /\ \/ SubSeq(writes'[2], 1, Len(V_FILL)) = V_FILL
               \/ writes'[2] = off_cmd]_led_vars

\* C19 (amended): whenever a new value becomes last-applied, it is the fetched
\* value and the worker has written, for a value that is on, the brightness
\* command and then the colour command, and for a value that is off the off
\* command alone, without a brightness command.
C19_WritesBeforeRecord ==
    [][last_applied' # last_applied
         => /\ last_applied' = desire /\ desire # <<>>
            /\ LET d == desire[1]
               IN  writes' = IF d.on
                             THEN <<bright_cmd(d.brightness), fill_cmd(d.rgb)>>
                             ELSE <<off_cmd>>]_led_vars

\* C19 witness: a stored value that is off, with a brightness of 100, was
\* applied by the off command alone.
C19_Witness ==
    /\ led_op = "applied" /\ last_applied = <<led_store>> /\ ~led_store.on
    /\ led_store.brightness = 100 /\ writes = <<off_cmd>>

\* C20 (as claimed): a step of the worker in which the fetch or a downstream
\* write failed leaves last-applied unchanged and the worker at its next poll.
C20_FailureIsNoChange ==
    [][(led_store' = led_store /\ led_op' \in {"nofetch", "crash"})
         => (last_applied' = last_applied /\ led_pc' = "poll")]_led_vars

\* ---------------------------------------------------------------------------
\* Bridge: run(), the discovery / session loop and its shutdown
\* ---------------------------------------------------------------------------

\* how a discovery or a session can fail or end
LinkErrors == {"nodevice", "scan_error", "connect_error", "not_connected",
               "link_lost", "transport_error"}

\* signal handler _sigint: sets stop_event, at any await of run()
SigInt ==
    /\ ~stop_event
    /\ run_pc # "exited"
    /\ stop_event' = TRUE
    /\ UNCHANGED <<run_pc, notify_on, put_task, led_task, stdin_task,
                   put_cancels, led_cancels, stdin_cancels, leaked, last_end,
                   waited>>

\* while not stop_event.is_set(): the test at the head of the loop
RunLoopTest ==
    /\ run_pc = "loop"
    /\ run_pc' = IF stop_event THEN "put_close" ELSE "discover"
    /\ UNCHANGED <<stop_event, notify_on, put_task, led_task, stdin_task,
                   put_cancels, led_cancels, stdin_cancels, leaked, last_end,
                   waited>>

\* dev = await find_device(): a device, None, or an exception of the scanner,
\* which the except clauses of the loop catch
FindDevice ==
    /\ run_pc = "discover"
    /\ \E found \in {"device", "nodevice", "scan_error"} :
          /\ run_pc' = CASE found = "device"     -> "connect"
                         [] found = "nodevice"   -> "nodev_wait"
                         [] found = "scan_error" -> "backoff"
          /\ last_end' = IF found = "device" THEN "none" ELSE found
    /\ waited' = FALSE
    /\ UNCHANGED <<stop_event, notify_on, put_task, led_task, stdin_task,
                   put_cancels, led_cancels, stdin_cancels, leaked>>

\* no device: wait_for(stop_event.wait(), 3.0); the timeout continues the
\* loop, a set stop_event breaks out of it
NoDeviceWait ==
    /\ run_pc = "nodev_wait"
    /\ IF stop_event
         THEN run_pc' = "put_close" /\ waited' = waited
         ELSE run_pc' = "loop" /\ waited' = TRUE
    /\ UNCHANGED <<stop_event, notify_on, put_task, led_task, stdin_task,
                   put_cancels, led_cancels, stdin_cancels, leaked, last_end>>

\* async with BleakClient(dev) as client: up to the session loop. Entering
\* the context, get_services or start_notify may raise, which the except
\* clauses catch; a client that is not connected continues the loop at its
\* head; otherwise notifications are on and the LedWorker and the stdin task
\* of the session are created.
Connect ==
    /\ run_pc = "connect"
    /\ \E outcome \in {"connect_error", "not_connected", "ready"} :
          CASE outcome = "ready" ->
                 /\ run_pc' = "session"
                 /\ last_end' = "none"
                 /\ notify_on' = TRUE
                 /\ leaked' = (leaked \/ led_task = "running")
                 /\ led_task' = "running"
                 /\ stdin_task' = "running"
                 /\ led_cancels' = 0
                 /\ stdin_cancels' = 0
            [] outcome = "not_connected" ->
                 /\ run_pc' = "loop"
                 /\ last_end' = outcome
                 /\ UNCHANGED <<notify_on, leaked, led_task, stdin_task,
                                led_cancels, stdin_cancels>>
            [] outcome = "connect_error" ->
                 /\ run_pc' = "backoff"
                 /\ last_end' = outcome
                 /\ UNCHANGED <<notify_on, leaked, led_task, stdin_task,
                                led_cancels, stdin_cancels>>
    /\ UNCHANGED <<stop_event, put_task, put_cancels, waited>>

\* the session loop: while client.is_connected and not stop_event.is_set().
\* A round that times out on the queue or writes a command stays in the
\* loop; a lost link ends the loop at its test, an exception of the write
\* breaks out of it.
SessionLoop ==
    /\ run_pc = "session"
    /\ IF stop_event
         THEN run_pc' = "finally" /\ last_end' = "stop"
         ELSE \E outcome \in {"round", "link_lost", "transport_error"} :
                 IF outcome = "round"
                   THEN UNCHANGED <<run_pc, last_end>>
                   ELSE run_pc' = "finally" /\ last_end' = outcome
    /\ UNCHANGED <<stop_event, notify_on, put_task, led_task, stdin_task,
                   put_cancels, led_cancels, stdin_cancels, leaked, waited>>

\* LedWorker._run ends with the exception of a failed client_write
LedCrash ==
    /\ run_pc \in {"session", "finally"}
    /\ led_task = "running"
    /\ led_task' = "crashed"
    /\ UNCHANGED <<run_pc, stop_event, notify_on, put_task, stdin_task,
                   put_cancels, led_cancels, stdin_cancels, leaked, last_end,
                   waited>>

\* stdin_to_queue ends with the exception of connect_read_pipe: the selector
\* loop of Windows has no pipes, and a regular file is no pipe
StdinFail ==
    /\ run_pc = "session"
    /\ stdin_task = "running"
    /\ stdin_task' = "failed"
    /\ UNCHANGED <<run_pc, stop_event, notify_on, put_task, led_task,
                   put_cancels, led_cancels, stdin_cancels, leaked, last_end,
                   waited>>

\* the finally clause of the session: stop_notify with its exceptions
\* suppressed, stdin_task.cancel(), await stdin_task with CancelledError
\* suppressed. The exception of a stdin task that had failed is raised again
\* by the await, leaves the clause and the client context and is caught by
\* except Exception, so that led_worker.close() is not reached.
Finally ==
    /\ run_pc = "finally"
    /\ notify_on' = FALSE
    /\ stdin_cancels' = stdin_cancels + 1
    /\ IF stdin_task = "failed"
         THEN run_pc' = "backoff" /\ stdin_task' = stdin_task
         ELSE run_pc' = "led_close" /\ stdin_task' = "cancelled"
    /\ UNCHANGED <<stop_event, put_task, led_task, put_cancels, led_cancels,
                   leaked, last_end, waited>>

\* await led_worker.close(): task.cancel(), await task with CancelledError
\* suppressed. A task that had crashed is done, cancel() changes nothing and
\* the await raises its exception again, which except BleakError catches.
LedClose ==
    /\ run_pc = "led_close"
    /\ led_cancels' = led_cancels + 1
    /\ led_task' = IF led_task = "running" THEN "cancelled" ELSE led_task
    /\ run_pc' = "backoff"
    /\ UNCHANGED <<stop_event, notify_on, put_task, stdin_task, put_cancels,
                   stdin_cancels, leaked, last_end, waited>>

\* the mutant of Backoff: a link error ends the loop
Backoff_GivesUp ==
    /\ run_pc = "backoff"
    /\ IF stop_event \/ last_end \in LinkErrors
         THEN run_pc' = "put_close" /\ waited' = waited
         ELSE run_pc' = "loop" /\ waited' = TRUE
    /\ UNCHANGED <<stop_event, notify_on, put_task, led_task, stdin_task,
                   put_cancels, led_cancels, stdin_cancels, leaked, last_end>>

\* after the try: if not stop_event.is_set(): wait_for(stop_event.wait(), 3.0)
\* with its timeout passed over; then the head of the loop
Backoff ==
    /\ run_pc = "backoff"
    /\ run_pc' = "loop"
    /\ waited' = IF stop_event THEN waited ELSE TRUE
    /\ UNCHANGED <<stop_event, notify_on, put_task, led_task, stdin_task,
                   put_cancels, led_cancels, stdin_cancels, leaked, last_end>>

\* await put_worker.close() after the loop: _task.cancel(), await _task
PutClose ==
    /\ run_pc = "put_close"
    /\ put_cancels' = put_cancels + 1
    /\ put_task' = "cancelled"
    /\ run_pc' = "exited"
    /\ UNCHANGED <<stop_event, notify_on, led_task, stdin_task, led_cancels,
                   stdin_cancels, leaked, last_end, waited>>

\* the frame of a step of run(): the rest of the bridge and the node stand
RunFrame == UNCHANGED <<vars, burst, asm_vars, put_vars, led_vars,
                        norm_vars, store_vars, stale, uart_waiting>>

NextRun ==
    \/ SigInt /\ RunFrame
    \/ RunLoopTest /\ RunFrame
    \/ FindDevice /\ RunFrame
    \/ NoDeviceWait /\ RunFrame
    \/ Connect /\ RunFrame
    \/ SessionLoop /\ RunFrame
    \/ LedCrash /\ RunFrame
    \/ StdinFail /\ RunFrame
    \/ Finally /\ RunFrame
    \/ LedClose /\ RunFrame
    \/ Backoff /\ RunFrame
    \/ PutClose /\ RunFrame

SpecRun == InitNode /\ [][NextRun]_run_vars

\* The event loop runs the coroutine of run() whenever its await is done:
\* the scan, the connect and both waits have timeouts, the clean-up steps
\* wait for nothing. Only the session loop may go round for ever, until
\* stop_event is set.
SpecRunLive ==
    /\ InitNode
    /\ [][NextRun]_run_vars
    /\ WF_run_vars(RunLoopTest /\ RunFrame)
    /\ WF_run_vars(FindDevice /\ RunFrame)
    /\ WF_run_vars(NoDeviceWait /\ RunFrame)
    /\ WF_run_vars(Connect /\ RunFrame)
    /\ WF_run_vars(SessionLoop /\ stop_event /\ RunFrame)
    /\ WF_run_vars(Finally /\ RunFrame)
    /\ WF_run_vars(LedClose /\ RunFrame)
    /\ WF_run_vars(Backoff /\ RunFrame)
    /\ WF_run_vars(PutClose /\ RunFrame)

\* C21: no discovery attempt follows a failed or ended discovery or session
\* without the 3 s wait in between (a set stop signal ends the loop instead)
C21_BackoffBeforeDiscovery ==
    (run_pc = "discover" /\ last_end # "none") => waited

\* C22: a bridge that has left its loop has unsubscribed, has cancelled the
\* uplink worker once, and has cancelled the actuator worker and the stdin
\* task of every session it had once each, leaving none of them behind
C22_ExitCancelsEachOnce ==
    run_pc = "exited" =>
        /\ ~notify_on
        /\ put_cancels = 1 /\ put_task = "cancelled"
        /\ ~leaked
        /\ led_task # "none" => (led_cancels = 1 /\ led_task = "cancelled")
        /\ stdin_task # "none" => (stdin_cancels = 1 /\ stdin_task = "cancelled")

\* a link error has happened and the next discovery has not yet begun
LinkErrorPending == last_end \in LinkErrors /\ run_pc # "discover"

\* C23: a link error never ends the loop (only a set stop signal does), and
\* while the stop signal is not set every link error is eventually followed
\* by a new discovery attempt
C23_LinkErrorsRetry ==
    /\ [](run_pc \in {"put_close", "exited"} => stop_event)
    /\ (LinkErrorPending ~> (run_pc = "discover" \/ stop_event))

\* a new discovery after a transport exception, the stop signal not set
C23_Witness ==
    run_pc = "discover" /\ last_end = "transport_error" /\ ~stop_event /\ waited

\* ---------------------------------------------------------------------------
\* Bridge: parse_line, the normalizer of telemetry lines, and handle_parsed
\* ---------------------------------------------------------------------------
\* Temperatures and light.norm are in tenths, light.raw is an integer.  A
\* line is its text and, for a line in braces, what json.loads makes of it:
\* obj is <<>> where json.loads raises, else <<o>>, o the decoded object with
\* each key <<>> where absent and <<v>> where present; a JSON value v is a
\* number [num |-> TRUE, val |-> tenths] or a string that is no number.

\* str.lower()
lower(s) ==
    LET LowerChar(c) ==
          CASE c = "C" -> "c" [] c = "E" -> "e" [] c = "M" -> "m"
            [] c = "N" -> "n" [] c = "P" -> "p" [] c = "S" -> "s"
            [] c = "T" -> "t" [] OTHER -> c
    IN  [i \in 1..Len(s) |-> LowerChar(s[i])]

\* str.find(c) counted from 1: the first index of c in s, 0 when there is none
find(s, c) ==
    IF \E i \in 1..Len(s) : s[i] = c
    THEN CHOOSE i \in 1..Len(s) : s[i] = c /\ \A j \in 1..(i - 1) : s[j] # c
    ELSE 0

\* str.split(c)
RECURSIVE split_at(_, _)
split_at(s, c) ==
    LET i == find(s, c)
    IN  IF i = 0 THEN <<s>>
        ELSE <<SubSeq(s, 1, i - 1)>> \o split_at(SubSeq(s, i + 1, Len(s)), c)

\* _parse_kv_csv(line): the pairs <<key, value>> of the parts that hold "=",
\* in the order of the line; a later pair of a key overwrites an earlier one
parse_kv_csv(line) ==
    LET all == split_at(line, ",")
        parts == IF find(all[1], "=") = 0 THEN Tail(all) ELSE all
        kvs == SelectSeq(parts, LAMBDA q : find(q, "=") # 0)
    IN  [i \in 1..Len(kvs) |->
            LET q == kvs[i]
                e == find(q, "=")
            IN  <<lower(strip(SubSeq(q, 1, e - 1))), strip(SubSeq(q, e + 1, Len(q)))>>]

\* kv.get(key): <<>> for None
kv_get(kv, key) ==
    LET at == {i \in 1..Len(kv) : kv[i][1] = key}
    IN  IF at = {} THEN <<>>
        ELSE <<kv[CHOOSE i \in at : \A j \in at : j <= i][2]>>

\* _to_float_or_none(v)
to_float_or_none(v) ==
    IF v = <<>> THEN <<>>
    ELSE IF py_float(v[1]).ok THEN <<py_float(v[1]).val>> ELSE <<>>

\* a or b on optional floats: None and 0.0 are false
or_float(a, b) == IF a # <<>> /\ a[1] # 0 THEN a ELSE b

\* _clamp(v, lo, hi)
clamp(v, lo, hi) == Max2(lo, Min2(hi, v))

\* the mutant of finalize_state: the values as they come
finalize_state_NoClamp(t, light_raw, light_norm, ts) ==
    [temperatureC |-> t,
     raw |-> IF light_raw >= 0 THEN light_raw \div 10 ELSE 0 - ((0 - light_raw) \div 10),
     norm |-> light_norm,
     timestamp |-> ts]

\* _finalize_state(t, light_raw, light_norm, ts), all three given in tenths:
\* int() cuts the fraction of light_raw towards zero
finalize_state(t, light_raw, light_norm, ts) ==
    [temperatureC |-> clamp(t, -200, 600),
     raw |-> Max2(0, IF light_raw >= 0 THEN light_raw \div 10
                                       ELSE 0 - ((0 - light_raw) \div 10)),
     norm |-> clamp(light_norm, 0, 10),
     timestamp |-> ts]

\* parse_line, SENS branch: what the line gives for t, lr and ln before the
\* values of last are filled in
sens_fields(line) ==
    LET kv == parse_kv_csv(line)
    IN  [t  |-> or_float(to_float_or_none(kv_get(kv, <<"t", "e", "m", "p", "_", "c">>)),
                or_float(to_float_or_none(kv_get(kv, <<"t", "e", "m", "p", "e", "r", "a", "t", "u", "r", "e", "c">>)),
                or_float(to_float_or_none(kv_get(kv, <<"t", "e", "m", "p">>)),
                         to_float_or_none(kv_get(kv, <<"t">>))))),
         lr |-> to_float_or_none(kv_get(kv, <<"l", "i", "g", "h", "t", "_", "r", "a", "w">>)),
         ln |-> to_float_or_none(kv_get(kv, <<"l", "i", "g", "h", "t", "_", "n", "o", "r", "m">>))]

\* the mutant of parse_sens: no record without a recognized field
parse_sens_NeedsField(line, last) ==
    LET f == sens_fields(line)
    IN  IF f.t = <<>> /\ f.lr = <<>> /\ f.ln = <<>> THEN <<>>
        ELSE <<finalize_state(IF f.t # <<>> THEN f.t[1] ELSE last.temperatureC,
                              IF f.lr # <<>> THEN f.lr[1] ELSE 10 * last.raw,
                              IF f.ln # <<>> THEN f.ln[1] ELSE last.norm,
                              "now")>>

\* parse_line, SENS branch: always a record
parse_sens(line, last) ==
    LET f == sens_fields(line)
    IN  <<finalize_state(IF f.t # <<>> THEN f.t[1] ELSE last.temperatureC,
                         IF f.lr # <<>> THEN f.lr[1] ELSE 10 * last.raw,
                         IF f.ln # <<>> THEN f.ln[1] ELSE last.norm,
                         "now")>>

\* parse_line, JSON branch: o is the object json.loads returned.  float() of
\* a string that is no number raises, and every exception gives None.
parse_json(o, last) ==
    LET or_value(a, b) == IF a # <<>> /\ (~a[1].num \/ a[1].val # 0) THEN a ELSE b
        t  == or_value(o.temperatureC, or_value(o.temp, o.t))
        lr == IF o.light # <<>> /\ o.light[1].raw # <<>> THEN o.light[1].raw ELSE o.light_raw
        ln == IF o.light # <<>> /\ o.light[1].norm # <<>> THEN o.light[1].norm ELSE o.light_norm
        raises(v) == v # <<>> /\ ~v[1].num
    IN  IF raises(t) \/ raises(lr) \/ raises(ln) THEN <<>>
        ELSE <<finalize_state(IF t # <<>> THEN t[1].val ELSE last.temperatureC,
                              IF lr # <<>> THEN lr[1].val ELSE 10 * last.raw,
                              IF ln # <<>> THEN ln[1].val ELSE last.norm,
                              IF o.timestamp THEN "given" ELSE "now")>>

\* parse_line(line, last): <<>> for None
parse_line(line, last) ==
    LET text == strip(line.text)
    IN  IF text = <<>> THEN <<>>
        ELSE IF Len(text) >= 4 /\ SubSeq(text, 1, 4) = <<"S", "E", "N", "S">>
               THEN parse_sens(text, last)
        ELSE IF Head(text) = "{" /\ text[Len(text)] = "}" /\ line.obj # <<>>
               THEN parse_json(line.obj[1], last)
        ELSE <<>>

\* the lines handle_parsed is given: SENS lines of one field for every key
\* and value below, the bare prefix, the prefix with an unknown key, the
\* line of the node's send_sens_line, a line of two fields, JSON objects
\* (the empty one among them), a line in braces that is no JSON, a line of
\* one loose token, a word, and blank lines
NormLines ==
    LET SENS == <<"S", "E", "N", "S">>
        Keys == {<<"t", "e", "m", "p", "_", "C">>, <<"t">>,
                 <<"l", "i", "g", "h", "t", "_", "r", "a", "w">>,
                 <<"l", "i", "g", "h", "t", "_", "n", "o", "r", "m">>}
        Vals == {<<"0">>, <<"2", "1", ".", "5">>, <<"-", "3", "0">>,
                 <<"9", "9">>, <<"a", "b", "c">>}
        text(x) == [text |-> x, obj |-> <<>>]
        N(v) == <<[num |-> TRUE, val |-> v]>>
        S == <<[num |-> FALSE, val |-> 0]>>
    IN  {text(SENS \o <<",">> \o k \o <<"=">> \o v) : k \in Keys, v \in Vals}
        \cup {text(SENS),
              text(SENS \o <<",", "m", "s", "=", "1">>),
              text(SENS \o <<",", "m", "s", "=", "1", ",", "t", "e", "m", "p", "_", "C", "=", "2", "1", ".", "5", "0", ",",
                             "l", "i", "g", "h", "t", "_", "r", "a", "w", "=", "4", "0", "0", ",",
                             "l", "i", "g", "h", "t", "_", "n", "o", "r", "m", "=", "0", ".", "5", "0", "0", "0">>),
              text(SENS \o <<",", "t", "e", "m", "p", "_", "C", "=", "2", "1", ".", "5", ",",
                             "l", "i", "g", "h", "t", "_", "r", "a", "w", "=", "4", "0", "0">>),
              text(<<"{", "x", "}">>),
              text(<<"t", "e", "m", "p", "=", "2", "1", ".", "5">>),
              text(<<"h", "i">>),
              text(<<" ">>),
              text(<<>>)}
        \cup {[text |-> <<"{", "}">>,
               obj |-> <<[temperatureC |-> tc, temp |-> <<>>, t |-> t,
                          light |-> li, light_raw |-> lr, light_norm |-> <<>>,
                          timestamp |-> ts]>>] :
                 tc \in {<<>>, N(0), N(215), S},
                 t \in {<<>>, N(0)},
                 li \in {<<>>, <<[raw |-> N(-30), norm |-> N(20)]>>},
                 lr \in {N(70)},
                 ts \in {FALSE}}
        \cup {[text |-> <<"{", "}">>,
               obj |-> <<[temperatureC |-> N(-300), temp |-> <<>>, t |-> <<>>,
                          light |-> <<[raw |-> N(4000), norm |-> <<>>]>>,
                          light_raw |-> <<>>, light_norm |-> <<>>,
                          timestamp |-> TRUE]>>],
              [text |-> <<"{", "}">>,
               obj |-> <<[temperatureC |-> <<>>, temp |-> <<>>, t |-> <<>>,
                          light |-> <<>>, light_raw |-> <<>>, light_norm |-> <<>>,
                          timestamp |-> FALSE]>>]}

\* run.handle_parsed(line): a rejected line returns, a record replaces
\* current (without its timestamp) and is submitted to put_worker
handle_parsed ==
    \E line \in NormLines :
        LET st == parse_line(line, current)
        IN  /\ norm_line' = line
            /\ IF st = <<>>
                 THEN /\ norm_op' = "rejected"
                      /\ UNCHANGED <<current, pending>>
                 ELSE /\ norm_op' = "record"
                      /\ current' = [temperatureC |-> st[1].temperatureC,
                                     raw |-> st[1].raw, norm |-> st[1].norm]
                      /\ pending' = st

\* PutWorker._run: payload = self.latest; self.latest = None
take_pending ==
    /\ pending # <<>>
    /\ pending' = <<>>
    /\ norm_op' = "taken"
    /\ UNCHANGED <<current, norm_line>>

NormFrame == UNCHANGED <<vars, burst, asm_vars, put_vars, led_vars,
                         run_vars, store_vars, stale, uart_waiting>>

NextNorm ==
    \/ handle_parsed /\ NormFrame
    \/ take_pending /\ NormFrame

SpecNorm == InitNode /\ [][NextNorm]_norm_vars

\* the first value present in a sequence of optional values, <<>> if none is
FirstPresent(opts) ==
    LET at == {i \in 1..Len(opts) : opts[i] # <<>>}
    IN  IF at = {} THEN <<>> ELSE opts[CHOOSE i \in at : \A j \in at : i <= j]

\* the line begins with the known prefix
IsTagged(line) ==
    LET text == strip(line.text)
    IN  Len(text) >= 4 /\ SubSeq(text, 1, 4) = <<"S", "E", "N", "S">>

\* the line is a structured object that could be decoded
IsObject(line) ==
    LET text == strip(line.text)
    IN  text # <<>> /\ Head(text) = "{" /\ text[Len(text)] = "}" /\ line.obj # <<>>

\* what a tagged or structured line supplies for each channel, in tenths:
\* a tagged line the number under the first of the temperature keys that
\* holds one, and the numbers under light_raw and light_norm; an object the
\* value under the first temperature key present, and for the light the
\* nested value or else the flat one
Supplied(line) ==
    IF IsTagged(line)
      THEN LET kv == parse_kv_csv(strip(line.text))
               num(key) == to_float_or_none(kv_get(kv, key))
           IN  [t  |-> FirstPresent(<<num(<<"t", "e", "m", "p", "_", "c">>),
                                      num(<<"t", "e", "m", "p", "e", "r", "a", "t", "u", "r", "e", "c">>),
                                      num(<<"t", "e", "m", "p">>),
                                      num(<<"t">>)>>),
                lr |-> num(<<"l", "i", "g", "h", "t", "_", "r", "a", "w">>),
                ln |-> num(<<"l", "i", "g", "h", "t", "_", "n", "o", "r", "m">>)]
      ELSE LET o == line.obj[1]
               nested(k) == IF o.light = <<>> THEN <<>>
                            ELSE IF k = "raw" THEN o.light[1].raw ELSE o.light[1].norm
           IN  [t  |-> FirstPresent(<<o.temperatureC, o.temp, o.t>>),
                lr |-> FirstPresent(<<nested("raw"), o.light_raw>>),
                ln |-> FirstPresent(<<nested("norm"), o.light_norm>>)]

\* every value an object supplies for a channel is a number
IsConvertible(line) ==
    LET f == Supplied(line)
    IN  \A v \in {f.t, f.lr, f.ln} : v # <<>> => v[1].num

\* the record the claim expects of a line that gave one: each channel the
\* clamped value the line supplies, else the value of last
Expected(line, last) ==
    LET f == Supplied(line)
        val(v) == IF IsTagged(line) THEN v[1] ELSE v[1].val
    IN  [temperatureC |-> IF f.t # <<>> THEN Max2(-200, Min2(600, val(f.t)))
                                         ELSE last.temperatureC,
         raw |-> IF f.lr # <<>> THEN Max2(0, val(f.lr) \div 10) ELSE last.raw,
         norm |-> IF f.ln # <<>> THEN Max2(0, Min2(10, val(f.ln))) ELSE last.norm]

\* C24: each channel of the record of a tagged or structured line is the
\* clamped value the line supplies, 0 included, and the value of the last
\* record where the line supplies none
C24_SuppliedOrLast ==
    [][norm_op' = "record" => current' = Expected(norm_line', current)]_norm_vars

\* C25, as claimed: a line gives a record only if its form yielded at least
\* one recognized field
C25_RecordNeedsField ==
    [][norm_op' = "record" =>
          LET f == Supplied(norm_line')
          IN  f.t # <<>> \/ f.lr # <<>> \/ f.ln # <<>>]_norm_vars

\* C25, amended: a line gives a record exactly if it begins with the known
\* prefix or is a decodable object whose supplied values are numbers,
\* whether or not it carries a recognized field
C25_RecordForEveryForm ==
    [][norm_op' \in {"record", "rejected"} =>
          ((norm_op' = "record") <=>
              \/ IsTagged(norm_line')
              \/ IsObject(norm_line') /\ IsConvertible(norm_line'))]_norm_vars

\* the bare prefix has given a record, all channels those of the last record
C25_Witness ==
    /\ norm_op = "record"
    /\ norm_line.text = <<"S", "E", "N", "S">>
    /\ current # START_RECORD

\* C26: the line temp=21.5, neither tagged nor structured, gives a record
\* with temperature 21.5
C26_LooseTokenIsRecord ==
    (/\ norm_op \in {"record", "rejected"}
     /\ norm_line.text = <<"t", "e", "m", "p", "=", "2", "1", ".", "5">>)
        => (norm_op = "record" /\ current.temperatureC = 215)

\* a record with every field in its range
RecordInRange(rec) ==
    /\ rec.temperatureC \in -200..600
    /\ rec.raw \in Nat
    /\ rec.norm \in 0..10

\* C27: current and the pending record are always populated and in range,
\* and a rejected line changes neither
C27_RecordsInRange ==
    /\ [](RecordInRange(current) /\ (pending # <<>> => RecordInRange(pending[1])))
    /\ [][norm_op' = "rejected" => (current' = current /\ pending' = pending)]_norm_vars

\* a line rejected while a record of clamped values is pending
C27_Witness ==
    /\ norm_op = "rejected"
    /\ pending # <<>>
    /\ current.temperatureC = 600
    /\ current.norm = 10

\* ---------------------------------------------------------------------------
\* Store: Handler.do_PUT for /telemetry and /led
\* ---------------------------------------------------------------------------
\* A request is its path and its body: <<>> where json.loads raises, else
\* <<o>>, o the decoded object with each key <<>> where absent and <<v>>
\* where present.  A number is [num |-> TRUE, val |-> n], temperatureC and
\* light.norm in tenths; num is FALSE for a value float() or int() refuses.
\* A timestamp is the one of a body (given) or the now_iso() of a request.

\* the mutant of clamp_json: the number as it comes
clamp_json_NoClamp(v, lo, hi) ==
    IF v = <<>> \/ ~v[1].num THEN <<>> ELSE <<v[1].val>>

\* _clamp_float(v, lo, hi) and _clamp_int(v, lo, hi): <<>> for None, which
\* is returned where the conversion raises, as it does for None
clamp_json(v, lo, hi) ==
    IF v = <<>> \/ ~v[1].num THEN <<>> ELSE <<Max2(lo, Min2(hi, v[1].val))>>

\* do_PUT, /telemetry: STATE after the update with the object o at time now
put_telemetry(o, st, now) ==
    LET temp == IF o.temperatureC = <<>> THEN <<Max2(-200, Min2(600, st.temperatureC))>>
                ELSE clamp_json(o.temperatureC, -200, 600)
        dict == o.light # <<>> /\ o.light[1].dict
        lr == IF dict /\ o.light[1].raw # <<>> /\ o.light[1].raw[1].num
                THEN <<Max2(0, o.light[1].raw[1].val)>> ELSE <<>>
        ln == IF dict THEN clamp_json(o.light[1].norm, 0, 10) ELSE <<>>
    IN  [temperatureC |-> IF temp # <<>> THEN temp[1] ELSE st.temperatureC,
         raw |-> IF lr # <<>> THEN lr[1] ELSE st.raw,
         norm |-> IF ln # <<>> THEN ln[1] ELSE st.norm,
         timestamp |-> IF o.timestamp THEN [given |-> TRUE, at |-> 0]
                                      ELSE [given |-> FALSE, at |-> now]]

\* the mutant of put_led: a component or a brightness out of range is refused
put_led_RejectsRange(o, led, now) ==
    LET on == IF o.on = <<>> THEN [bool |-> TRUE, val |-> led.on] ELSE o.on[1]
        rgb == IF o.rgb = <<>>
                 THEN [list |-> TRUE,
                       items |-> [i \in 1..3 |-> [num |-> TRUE, val |-> led.rgb[i]]]]
                 ELSE o.rgb[1]
        bri == IF o.brightness = <<>> THEN <<[num |-> TRUE, val |-> led.brightness]>>
               ELSE o.brightness
    IN  IF \/ ~on.bool
           \/ ~rgb.list \/ Len(rgb.items) # 3
           \/ \E i \in 1..3 : ~rgb.items[i].num \/ rgb.items[i].val \notin 0..255
           \/ ~bri[1].num \/ bri[1].val \notin 0..100
          THEN [status |-> 400, led |-> led]
          ELSE [status |-> 200,
                led |-> [on |-> on.val,
                         rgb |-> [i \in 1..3 |-> rgb.items[i].val],
                         brightness |-> bri[1].val,
                         updatedAt |-> now]]

\* do_PUT, /led: the status and LED after the request with the object o at
\* time now; a key that is absent stands for the stored value
put_led(o, led, now) ==
    LET on == IF o.on = <<>> THEN [bool |-> TRUE, val |-> led.on] ELSE o.on[1]
        rgb == IF o.rgb = <<>>
                 THEN [list |-> TRUE,
                       items |-> [i \in 1..3 |-> [num |-> TRUE, val |-> led.rgb[i]]]]
                 ELSE o.rgb[1]
        bri == IF o.brightness = <<>> THEN <<[num |-> TRUE, val |-> led.brightness]>>
               ELSE o.brightness
    IN  IF ~on.bool THEN [status |-> 400, led |-> led]
        ELSE IF ~rgb.list \/ Len(rgb.items) # 3 THEN [status |-> 400, led |-> led]
        ELSE IF \/ \E i \in 1..3 : clamp_json(<<rgb.items[i]>>, 0, 255) = <<>>
                \/ clamp_json(bri, 0, 100) = <<>>
               THEN [status |-> 400, led |-> led]
        ELSE [status |-> 200,
              led |-> [on |-> on.val,
                       rgb |-> [i \in 1..3 |-> clamp_json(<<rgb.items[i]>>, 0, 255)[1]],
                       brightness |-> clamp_json(bri, 0, 100)[1],
                       updatedAt |-> now]]

\* the requests the store is sent: a path that is no API path, both API
\* paths with a body that is no JSON, /telemetry and /led with the objects
\* below
PutRequests ==
    LET N(v) == <<[num |-> TRUE, val |-> v]>>
        S == <<[num |-> FALSE, val |-> 0]>>
        obj(tc, li, ts, on, rgb, bri) ==
            <<[temperatureC |-> tc, light |-> li, timestamp |-> ts,
               on |-> on, rgb |-> rgb, brightness |-> bri]>>
        list(a, b, c) == <<[list |-> TRUE, items |-> a \o b \o c]>>
    IN  {[path |-> "/x", body |-> obj(<<>>, <<>>, FALSE, <<>>, <<>>, <<>>)]}
        \cup {[path |-> p, body |-> <<>>] : p \in {"/telemetry", "/led"}}
        \cup {[path |-> "/telemetry", body |-> obj(tc, li, ts, <<>>, <<>>, <<>>)] :
                 tc \in {<<>>, N(215), N(999), S},
                 li \in {<<>>,
                         <<[dict |-> TRUE, raw |-> N(400), norm |-> <<>>]>>,
                         <<[dict |-> TRUE, raw |-> N(-5), norm |-> N(20)]>>,
                         <<[dict |-> FALSE, raw |-> <<>>, norm |-> <<>>]>>},
                 ts \in BOOLEAN}
        \cup {[path |-> "/led", body |-> obj(<<>>, <<>>, FALSE, on, rgb, bri)] :
                 on \in {<<>>, <<[bool |-> TRUE, val |-> TRUE]>>,
                         <<[bool |-> FALSE, val |-> FALSE]>>},
                 rgb \in {<<>>, list(N(10), N(20), N(300)), list(N(0), N(0), N(255)),
                          list(N(1), S, N(3)), list(N(1), N(2), <<>>),
                          <<[list |-> FALSE, items |-> <<>>]>>},
                 bri \in {<<>>, N(150), N(80), S}}

\* the mutant of reject: the error stamps the telemetry state
reject_Stamps(status) ==
    /\ put_status' = status
    /\ tel_store' = [tel_store EXCEPT !.timestamp = [given |-> FALSE, at |-> store_now + 1]]
    /\ UNCHANGED led_store

\* do_PUT: _set_api_headers(status), the error body, return
reject(status) ==
    /\ put_status' = status
    /\ UNCHANGED <<tel_store, led_store>>

\* Handler.do_PUT; now_iso() counts the requests
do_PUT ==
    /\ store_now < MaxStamp
    /\ \E req \in PutRequests :
          /\ put_req' = req
          /\ store_now' = store_now + 1
          /\ IF req.path \notin {"/telemetry", "/led"} THEN reject(404)
             ELSE IF req.body = <<>> THEN reject(400)
             ELSE IF req.path = "/telemetry"
               THEN /\ tel_store' = put_telemetry(req.body[1], tel_store, store_now + 1)
                    /\ put_status' = 200
                    /\ UNCHANGED led_store
             ELSE LET res == put_led(req.body[1], led_store, store_now + 1)
                  IN  IF res.status = 400 THEN reject(400)
                      ELSE /\ led_store' = res.led
                           /\ put_status' = 200
                           /\ UNCHANGED tel_store

\* the store: STATE, LED and the last request
store_all == <<led_store, store_vars>>

NextStore ==
    do_PUT /\ UNCHANGED <<vars, burst, asm_vars, put_vars, last_applied, desire,
                          led_pc, writes, led_op, run_vars, norm_vars, stale,
                          uart_waiting>>

SpecStore == InitNode /\ [][NextStore]_store_all

\* the last request was a PUT /led whose body could be decoded
LedRequest(req) == req.path = "/led" /\ req.body # <<>>

\* the body names an rgb component outside 0..255 or a brightness outside
\* 0..100
OutOfRange(o) ==
    \/ /\ o.rgb # <<>>
       /\ o.rgb[1].list
       /\ \E i \in 1..Len(o.rgb[1].items) :
             o.rgb[1].items[i].num /\ o.rgb[1].items[i].val \notin 0..255
    \/ /\ o.brightness # <<>>
       /\ o.brightness[1].num
       /\ o.brightness[1].val \notin 0..100

\* the body has an on that is no boolean, an rgb that is no list of three,
\* or a component or brightness that is no number
MalformedLed(o) ==
    \/ o.on # <<>> /\ ~o.on[1].bool
    \/ o.rgb # <<>> /\ (~o.rgb[1].list \/ Len(o.rgb[1].items) # 3)
    \/ /\ o.rgb # <<>>
       /\ \E i \in 1..Len(o.rgb[1].items) : ~o.rgb[1].items[i].num
    \/ o.brightness # <<>> /\ ~o.brightness[1].num

\* C28, as claimed: a PUT /led with a component or a brightness out of range
\* is answered 400
C28_OutOfRangeIs400 ==
    (LedRequest(put_req) /\ OutOfRange(put_req.body[1])) => put_status = 400

\* C28, amended: a PUT /led is answered 400 exactly if its body is
\* malformed, and then LED is unchanged; a component or a brightness out of
\* range is clamped into its range, stored and answered 200
C28_OutOfRangeIsClamped ==
    [][(store_now' # store_now /\ LedRequest(put_req')) =>
          LET o == put_req'.body[1]
          IN  /\ (put_status' = 400) <=> MalformedLed(o)
              /\ put_status' = 400 => led_store' = led_store
              /\ put_status' # 400 =>
                    /\ put_status' = 200
                    /\ led_store'.rgb \in [1..3 -> 0..255]
                    /\ led_store'.brightness \in 0..100
                    /\ o.brightness # <<>> =>
                          led_store'.brightness =
                              Max2(0, Min2(100, o.brightness[1].val))
                    /\ o.rgb # <<>> =>
                          \A i \in 1..3 :
                              led_store'.rgb[i] =
                                  Max2(0, Min2(255, o.rgb[1].items[i].val))]_store_all

\* the body of the spec's scenario B, answered 200 and stored clamped
C28_Witness ==
    /\ LedRequest(put_req)
    /\ put_req.body[1].rgb = <<[list |-> TRUE,
                                items |-> <<[num |-> TRUE, val |-> 10],
                                            [num |-> TRUE, val |-> 20],
                                            [num |-> TRUE, val |-> 300]>>]>>
    /\ put_req.body[1].brightness = <<[num |-> TRUE, val |-> 150]>>
    /\ put_status = 200
    /\ led_store.rgb = <<10, 20, 255>>
    /\ led_store.brightness = 100

\* both states of the store are in range
StoreInRange ==
    /\ led_store.on \in BOOLEAN
    /\ led_store.rgb \in [1..3 -> 0..255]
    /\ led_store.brightness \in 0..100
    /\ tel_store.temperatureC \in -200..600
    /\ tel_store.raw \in Nat
    /\ tel_store.norm \in 0..10

\* C29: LED and STATE are in range after any PUTs, and a PUT /telemetry
\* keeps the value of each channel its body does not name
C29_StoreInRange ==
    /\ []StoreInRange
    /\ [][(store_now' # store_now /\ put_req'.path = "/telemetry"
             /\ put_req'.body # <<>>) =>
            LET o == put_req'.body[1]
            IN  /\ put_status' = 200
                /\ o.temperatureC = <<>> => tel_store'.temperatureC = tel_store.temperatureC
                /\ o.light = <<>> => (tel_store'.raw = tel_store.raw
                                         /\ tel_store'.norm = tel_store.norm)
                /\ (o.light # <<>> /\ o.light[1].raw = <<>>) => tel_store'.raw = tel_store.raw
                /\ (o.light # <<>> /\ o.light[1].norm = <<>>) => tel_store'.norm = tel_store.norm
                /\ led_store' = led_store]_store_all

\* a PUT /telemetry with the light alone, out of range, after one that set a
\* temperature: the temperature is kept, the light is clamped
C29_Witness ==
    /\ put_req.path = "/telemetry"
    /\ put_req.body # <<>>
    /\ put_req.body[1].temperatureC = <<>>
    /\ put_req.body[1].light # <<>>
    /\ tel_store.temperatureC = 600
    /\ tel_store.raw = 0
    /\ tel_store.norm = 10

\* C30: an unknown path is answered 404, a body that is no JSON and a
\* malformed /led body are answered 400, and every request answered 4xx
\* leaves STATE and LED as they were, their timestamps included
C30_ErrorsChangeNothing ==
    [][store_now' # store_now =>
          /\ put_req'.path \notin {"/telemetry", "/led"} => put_status' = 404
          /\ (put_req'.path \in {"/telemetry", "/led"} /\ put_req'.body = <<>>)
                => put_status' = 400
          /\ (LedRequest(put_req') /\ MalformedLed(put_req'.body[1])) => put_status' = 400
          /\ put_status' \in 400..499 =>
                (tel_store' = tel_store /\ led_store' = led_store)]_store_all

\* a malformed PUT /led answered 400 after a PUT /led that was stored
C30_Witness ==
    /\ LedRequest(put_req)
    /\ MalformedLed(put_req.body[1])
    /\ put_status = 400
    /\ led_store.updatedAt = 1
    /\ store_now = 2

\* ---------------------------------------------------------------------------
\* Node: dispatch and telemetry after the state has left ACTIVE
\* ---------------------------------------------------------------------------

\* C35: a line is handed to handle_command only while the state is ACTIVE,
\* and a periodic telemetry frame is written only while it is: once a RESET
\* command or a command fault has set RESETTING, neither happens before the
\* reset has run
C35_DispatchOnlyWhileActive ==
    [][/\ DispatchStep => state = STATE_HANDLE
       /\ (pc = "telem" /\ resp' # <<>>) => state = STATE_HANDLE]_vars

\* ---------------------------------------------------------------------------
\* Sessions: the LineAssembler of a bridge session, the rx_buf of the node
\* ---------------------------------------------------------------------------

\* the bytes the node sends in one session: every sequence of up to two
SessionStreams == {w \in Streams : Len(w) <= 2}

\* the mutant of OpenSession: the LineAssembler outlives the session
OpenSession_KeepsAssembler ==
    /\ Connect
    /\ IF run_pc' = "session"
         THEN /\ stale' = asm_buf
              /\ asm_buf' = asm_buf
              /\ fed' = <<>>
              /\ got' = <<>>
              /\ wire' \in SessionStreams
         ELSE UNCHANGED <<asm_vars, stale>>

\* run(), from async with BleakClient to the session loop, with the
\* assembler = LineAssembler() of the session: fed and got are the chunks
\* and the lines of this session, wire is what the node will send in it
OpenSession ==
    /\ Connect
    /\ IF run_pc' = "session"
         THEN /\ stale' = asm_buf
              /\ asm_buf' = <<>>
              /\ fed' = <<>>
              /\ got' = <<>>
              /\ wire' \in SessionStreams
         ELSE UNCHANGED <<asm_vars, stale>>

\* what a step of the bridge's session leaves alone
SessFrame ==
    UNCHANGED <<vars, burst, put_vars, led_vars, norm_vars, store_vars, uart_waiting>>

\* The bridge and the node share no variable, so a behaviour of the pair is
\* an interleaving of a behaviour of each, and what holds of one side with
\* the other standing still holds of the pair: a step of the bridge is taken
\* with the node as it booted, a step of the node with the bridge as it
\* started.  handle_notify is called while the client is subscribed.
NextSessions ==
    \/ RunLoopTest /\ Init /\ SessFrame /\ UNCHANGED <<asm_vars, stale>>
    \/ FindDevice /\ Init /\ SessFrame /\ UNCHANGED <<asm_vars, stale>>
    \/ NoDeviceWait /\ Init /\ SessFrame /\ UNCHANGED <<asm_vars, stale>>
    \/ OpenSession /\ Init /\ SessFrame
    \/ FeedChunk /\ notify_on /\ Init /\ SessFrame /\ UNCHANGED <<run_vars, stale>>
    \/ SessionLoop /\ Init /\ SessFrame /\ UNCHANGED <<asm_vars, stale>>
    \/ Finally /\ Init /\ SessFrame /\ UNCHANGED <<asm_vars, stale>>
    \/ LedClose /\ Init /\ SessFrame /\ UNCHANGED <<asm_vars, stale>>
    \/ Backoff /\ Init /\ SessFrame /\ UNCHANGED <<asm_vars, stale>>
    \/ TickWait /\ RunInit /\ AsmIdle /\ UNCHANGED aux_vars
    \/ HandleRead /\ RunInit /\ AsmIdle /\ UNCHANGED aux_vars
    \/ HandleDispatch /\ RunInit /\ AsmIdle /\ UNCHANGED aux_vars
    \/ HandleTelem /\ RunInit /\ AsmIdle /\ UNCHANGED aux_vars
    \/ HandleLink /\ RunInit /\ AsmIdle /\ UNCHANGED aux_vars
    \/ TickReset /\ RunInit /\ AsmIdle /\ UNCHANGED aux_vars
    \/ FaultTick /\ RunInit /\ AsmIdle /\ UNCHANGED aux_vars
    \/ LinkUp /\ RunInit /\ AsmIdle /\ UNCHANGED aux_vars
    \/ LinkDown /\ RunInit /\ AsmIdle /\ UNCHANGED aux_vars
    \/ TimePasses /\ RunInit /\ AsmIdle /\ UNCHANGED aux_vars

sess_all == <<vars, asm_vars, run_vars, stale>>

SpecSessions == InitNode /\ [][NextSessions]_sess_all

\* C31: a session of the bridge starts with an empty LineAssembler, and the
\* lines it returns and the bytes it holds are those of the chunks of this
\* session alone; on the node rx_buf is empty whenever ACTIVE is entered
\* from AWAITING_LINK
C31_NoStitching ==
    /\ [](notify_on => (got = LinesOf(Flat(fed)) /\ asm_buf = TailOf(Flat(fed))))
    /\ [][(run_pc = "connect" /\ run_pc' = "session") => asm_buf' = <<>>]_sess_all
    /\ [][ConnectStep => rx_buf' = <<>>]_sess_all

\* a later session has returned a line, the session before it having ended
\* with a byte and no newline in its assembler
C31_Witness ==
    /\ run_pc = "session"
    /\ stale = <<"a">>
    /\ got = <<<<"a">>>>
    /\ asm_buf = <<>>

(***************************************************************************)
(* The run loop again: the workers of an ended session, and the stop       *)
(* signal.                                                                 *)
(***************************************************************************)
\* C32: when a discovery is under way, neither the LedWorker nor the stdin
\* task of an earlier session is still running, and no LedWorker was ever
\* created while another one was running.
C32_WorkersEndWithSession ==
    /\ run_pc = "discover" => (led_task # "running" /\ stdin_task # "running")
    /\ ~leaked

\* C33: once the stop signal is set, no step starts a discovery and no step
\* opens a session.
C33_StopOpensNothing ==
    [][stop_event => /\ ~(run_pc # "discover" /\ run_pc' = "discover")
                     /\ ~(run_pc # "session" /\ run_pc' = "session")]_run_vars

(***************************************************************************)
(* PutWorker again: every interleaving of submit with the worker's steps.  *)
(***************************************************************************)

\* the number of send attempts made for record r
Attempts(r) == Cardinality({i \in 1..Len(sent) : sent[i] = r})

\* C34: whatever the order of submits, ticks and PUT completions, every
\* submitted record has had at most one send attempt, and one that has had
\* none is waiting in the slot or was overwritten by a later record; the
\* slot changes only by a later submit or by a tick that starts a send
\* attempt for the record it removes; a send attempt starts only when no PUT
\* is in flight.
C34_TakenOnceOrOverwritten ==
    /\ [](\A r \in 1..submitted :
             /\ Attempts(r) <= 1
             /\ Attempts(r) = 0 => (latest = r \/ r < submitted))
    /\ [][latest' # latest
             => \/ submitted' = submitted + 1 /\ latest' = submitted'
                \/ /\ latest' = 0
                   /\ sent' = Append(sent, latest)
                   /\ payload' = latest]_put_vars
    /\ [][sent' # sent
             => /\ put_pc = "sleep" /\ put_pc' = "put"
                /\ Len(sent') = Len(sent) + 1]_put_vars

\* C34 witness: record 1 was overwritten by 2, records 2 and 3 were each
\* taken once, and record 4 arrived while the PUT of 3 is in flight.
C34_Witness ==
    /\ sent = <<2, 3>> /\ payload = 3 /\ put_pc = "put"
    /\ latest = 4 /\ submitted = 4

(***************************************************************************)
(* Node, LedWorker and store together, in one session that stays up: what  *)
(* the LedWorker and the session loop write waits in the node's UART until *)
(* the node reads it.  The link does not drop, every write and every GET   *)
(* /led succeeds.                                                          *)
(***************************************************************************)
\* STATE_HANDLE, first part: uart.read(uart.in_waiting) returns all that the
\* bridge has written since the last read
UartRead ==
    /\ pc = "top" /\ state = STATE_HANDLE
    /\ rx_buf' = rx_buf \o decode(uart_waiting)
    /\ pc' = IF uart_waiting # <<>> /\ HasNL(rx_buf') THEN "lines" ELSE "telem"
    /\ uart_waiting' = <<>>
    /\ resp' = <<>>
    /\ lastOp' = "read"
    /\ UNCHANGED <<state, farben, brightness, telemetry_period, since, connected,
                   advertising, reset_owed>>

\* the session loop of run(): the operator's line RESET comes out of tx_q
\* and is written to the node with a newline
OperatorReset ==
    /\ connected
    /\ uart_waiting = <<>>
    /\ uart_waiting' = V_RESET \o <<NL>>
    /\ UNCHANGED vars

\* a PUT /led of the store that asks for blue at 80 percent, on or off
SyncPut ==
    /\ do_PUT_led
    /\ led_store'.rgb = <<0, 0, 255>>
    /\ led_store'.brightness = 80
    /\ UNCHANGED <<vars, uart_waiting>>

\* one turn of LedWorker._run in the session, _fetch_desired returning the
\* store's dict
SyncPoll ==
    /\ connected
    /\ LedPoll
    /\ led_op' # "nofetch"
    /\ UNCHANGED <<vars, uart_waiting>>

\* one client_write of _apply that returns: the line is in the node's UART
SyncWrite ==
    /\ LedWrite
    /\ led_pc' # "done"
    /\ uart_waiting' = uart_waiting \o writes'[Len(writes')]
    /\ UNCHANGED vars

SyncFrame == UNCHANGED <<burst, asm_vars, put_vars, run_vars, norm_vars, store_vars, stale>>

NextSync ==
    \/ TickWait /\ UNCHANGED aux_vars
    \/ UartRead /\ UNCHANGED led_vars /\ SyncFrame
    \/ HandleDispatch /\ UNCHANGED aux_vars
    \/ HandleTelem /\ UNCHANGED aux_vars
    \/ HandleLink /\ UNCHANGED aux_vars
    \/ TickReset /\ UNCHANGED aux_vars
    \/ FaultTick /\ UNCHANGED aux_vars
    \/ LinkUp /\ UNCHANGED aux_vars
    \/ TimePasses /\ UNCHANGED aux_vars
    \/ OperatorReset /\ UNCHANGED led_vars /\ SyncFrame
    \/ SyncPut /\ SyncFrame
    \/ SyncPoll /\ SyncFrame
    \/ SyncWrite /\ SyncFrame

sync_all == <<vars, led_vars, uart_waiting>>

\* The node's while True loop goes on from tick to tick (a dispatch is
\* possible exactly when pc = "lines", so its fairness is written out), the
\* central connects to the advertising node, and the LedWorker task is
\* scheduled again after each of its awaits; faults, operator lines, store
\* requests and the clock may or may not come.
SpecSync ==
    /\ InitNode
    /\ [][NextSync]_sync_all
    /\ WF_sync_all(TickWait /\ UNCHANGED aux_vars)
    /\ WF_sync_all(UartRead /\ UNCHANGED led_vars /\ SyncFrame)
    /\ ([]<>(pc # "lines") \/ []<><<HandleDispatch /\ UNCHANGED aux_vars>>_sync_all)
    /\ WF_sync_all(HandleTelem /\ UNCHANGED aux_vars)
    /\ WF_sync_all(HandleLink /\ UNCHANGED aux_vars)
    /\ WF_sync_all(TickReset /\ UNCHANGED aux_vars)
    /\ WF_sync_all(LinkUp /\ UNCHANGED aux_vars)
    /\ WF_sync_all(SyncPoll /\ SyncFrame)
    /\ WF_sync_all(SyncWrite /\ SyncFrame)

\* C36: in the session, whenever the node has run its STATE_RESET branch
\* (after a RESET line or after a fault) and so shows its defaults, the
\* LedWorker later finds a state to apply and sets out to write it.
C36_RewrittenAfterRestore ==
    (connected /\ lastOp = "reset") ~> (led_pc = "write")
====
